---- MODULE Spec2Model ----
(***************************************************************************)
(* Model of the service of vectordb_comparison:                            *)
(*   app/benchmark_streaming.py  start_benchmark, run_benchmark,           *)
(*                               stream_benchmark.event_generator,         *)
(*                               get_benchmark_status                      *)
(*   app/utils.py                chunk_text, l2_normalize,                 *)
(*                               extract_text_from_openapi                 *)
(*   app/embeddings.py           ollama_embed                              *)
(*   app/db_pg.py                replace_source                            *)
(*   app/chroma_client.py        upsert_source                             *)
(*   app/routers.py              ingest                                    *)
(*   benchmark/benchmark.py      main, run_all_benchmarks,                 *)
(*                               run_benchmark_for_spec, save_results      *)
(*                                                                         *)
(* Text is modelled as a sequence of tokens (a token is a run of           *)
(* characters that the code never looks inside, except the one-character   *)
(* tokens "|" and " ").  Floats are fixed point: a float x is the integer  *)
(* 1000*x (MILLI), a stored percentage, which the code rounds to one       *)
(* decimal, is the integer 10*pct.  The float literals of the model are    *)
(* dyadic, so the code's float arithmetic is exact wherever a rounding     *)
(* tie occurs.                                                             *)
(***************************************************************************)
EXTENDS Integers, Sequences, FiniteSets, TLC

VARIABLES
    active_benchmarks,  \* benchmark_id -> run state dict (the run registry)
    task,               \* benchmark_id -> the run_benchmark coroutine: pc and locals
    proc,               \* benchmark_id -> the child process: returncode, stderr pipe
    files,              \* benchmark_id -> /tmp/benchmark_<id>.csv, or NoFile
    obs,                \* observer -> the event_generator coroutine: pc and locals
    events,             \* observer -> the records yielded on its stream, in order
    nlines,             \* stdout lines read so far, over all runs (bounds the model)
    lowered,            \* history: benchmark_id -> a line has lowered the run's
                        \* (current_progress, sub_progress) pair
    chunker,            \* a call of chunk_text: its arguments and what it returned
    extractor,          \* a call of extract_text_from_openapi: its argument and
                        \* what it returned
    embed,              \* handler -> the ollama_embed coroutine: pc, locals, and the
                        \* history of its requests and backoff waits
    ingests,            \* handler -> the ingest coroutine: pc, locals, its response
    documents,          \* the rows of the table documents (pgvector)
    serial,             \* the BIGSERIAL sequence of documents.id
    collection,         \* the Chroma collection: id -> entry
    writes,             \* history: the writes to the backends, in order
    driver,             \* the child process of run 1: benchmark.py, its pc, its
                        \* locals, its result rows, and the history of its calls
    replies             \* history: the answers to the status requests, in order

benchVars == <<active_benchmarks, task, proc, files, obs, events, nlines, lowered>>

pipeVars == <<chunker, extractor, embed, ingests, documents, serial, collection, writes>>

vars == <<active_benchmarks, task, proc, files, obs, events, nlines, lowered,
          chunker, extractor, embed, ingests, documents, serial, collection, writes,
          driver, replies>>

(***************************** bounds **************************************)
MaxLines == 2     \* stdout lines read, over all runs
MaxText == 5      \* characters of a text given to chunk_text
MaxBatches == 2   \* full batches of a call of ollama_embed
MaxRetries == 3   \* max_retries of a call of ollama_embed
MaxComponent == 3 \* absolute value of a component the embedding service sends
MaxRequests == 3  \* ingest requests
MaxParts == 2     \* fragments the walk of a document collects
MaxMessage == 3   \* characters of the message of a progress marker
MaxFaults == 2    \* calls of the benchmark driver that fail
MaxStatus == 1    \* status requests

\* the ids uuid4 draws from, the stream clients
BenchmarkIds == {1, 2}
Observers    == {1, 2}

\* the requests the service handles
Handlers == 1..MaxRequests

(************************* dictionaries ************************************)
\* dict.get(key, default)
Get(d, k, default) == IF k \in DOMAIN d THEN d[k] ELSE default

\* d[k] = v on a dict (adds the key when missing)
Put(d, k, v) == [x \in (DOMAIN d) \cup {k} |-> IF x = k THEN v ELSE d[x]]

(***************************** text ****************************************)
WS == " "

IsWS(tok) == tok \in {WS, "\n"}

RECURSIVE LStrip(_)
LStrip(s) == IF s # <<>> /\ IsWS(Head(s)) THEN LStrip(Tail(s)) ELSE s

RECURSIVE RStrip(_)
RStrip(s) == IF s # <<>> /\ IsWS(s[Len(s)]) THEN RStrip(SubSeq(s, 1, Len(s) - 1)) ELSE s

\* str.strip()
Strip(s) == RStrip(LStrip(s))

\* An invalid UTF-8 byte: bytes.decode() raises UnicodeDecodeError on it.
BadByte == "\\xff"

Decodable(bytes) == \A i \in 1..Len(bytes) : bytes[i] # BadByte

\* "[PROGRESS]", the 10 characters that line_str[10:] skips
PROGRESS == "[PROGRESS]"

\* the legacy marker substring (the code's "<emoji> Run ")
LEGACY == "Run "

StartsWithProgress(line_str) == line_str # <<>> /\ Head(line_str) = PROGRESS

\* '"<emoji> Run " in line_str'
ContainsLegacy(line_str) == \E i \in 1..Len(line_str) : line_str[i] = LEGACY

\* position of the first "|" of s, 0 when there is none
RECURSIVE FindPipe(_, _)
FindPipe(s, i) ==
    IF i > Len(s) THEN 0
    ELSE IF s[i] = "|" THEN i
    ELSE FindPipe(s, i + 1)

\* str.split("|", maxsplit): at most maxsplit splits, the rest is one field
RECURSIVE Split(_, _)
Split(s, maxsplit) ==
    LET p == FindPipe(s, 1) IN
    IF maxsplit = 0 \/ p = 0 THEN <<s>>
    ELSE <<SubSeq(s, 1, p - 1)>> \o Split(SubSeq(s, p + 1, Len(s)), maxsplit - 1)

(**************************** numbers **************************************)
\* fixed-point scale of a float: thousandths
MILLI == 10 * 10 * 10

\* int(): the integer literals of the model, surrounding blanks allowed
IntLiterals == [lit \in {"-1", "0", "1", "2", "3", "10"} |->
    CASE lit = "-1" -> -1 [] lit = "0" -> 0 [] lit = "1" -> 1
      [] lit = "2" -> 2 [] lit = "3" -> 3 [] lit = "10" -> 10]

\* float(): the float literals of the model, in thousandths; int literals are floats too
FloatLiterals == [lit \in {"0.0", "0.25", "0.5", "1.5", "-1.0"} |->
    CASE lit = "0.0" -> 0 [] lit = "0.25" -> 250 [] lit = "0.5" -> 500
      [] lit = "1.5" -> 1500 [] lit = "-1.0" -> -1000]

IsInt(field) ==
    LET t == Strip(field) IN Len(t) = 1 /\ t[1] \in DOMAIN IntLiterals

ParseInt(field) == IntLiterals[Strip(field)[1]]

IsFloat(field) ==
    LET t == Strip(field) IN
    Len(t) = 1 /\ t[1] \in (DOMAIN FloatLiterals) \cup (DOMAIN IntLiterals)

ParseFloat(field) ==
    LET t == Strip(field)[1] IN
    IF t \in DOMAIN FloatLiterals THEN FloatLiterals[t] ELSE MILLI * IntLiterals[t]

\* round(n / d) to the nearest integer, ties to even (d > 0): Python's round()
RoundDiv(n, d) ==
    LET q == n \div d
        r == n % d
    IN  IF 2 * r > d THEN q + 1
        ELSE IF 2 * r = d /\ q % 2 = 1 THEN q + 1
        ELSE q

\* mutant of OverallProgressPct: the percentage is truncated, not rounded
OverallProgressPctTruncated(current_run, total_runs_int, sub_progress) ==
    IF total_runs_int > 0
    THEN ((current_run - 1) * MILLI + sub_progress) \div total_runs_int
    ELSE 0

\* round(overall_progress_pct, 1), in tenths of a percent, where
\* overall_progress_pct = ((current_run - 1 + sub_progress) / total_runs) * 100
\* and 0 when total_runs <= 0
OverallProgressPct(current_run, total_runs_int, sub_progress) ==
    IF total_runs_int > 0
    THEN RoundDiv((current_run - 1) * MILLI + sub_progress, total_runs_int)
    ELSE 0

\* str(n) of the exit codes of the model
Str(n) == CASE n = 0 -> "0" [] n = 1 -> "1" [] n = 2 -> "2" [] OTHER -> "-9"

(************************* the specs list file *****************************)
\* /benchmark/api_specs_list.json as mounted: category -> its specs
ApiSpecsList == [categories |-> [small |-> <<"petstore", "httpbin">>, medium |-> <<"github">>]]

\* what POST /benchmark/start is called with
Requests == { [runs |-> 1, categories |-> <<"small">>],
              [runs |-> 2, categories |-> <<"small", "huge">>] }

RECURSIVE SumApis(_, _)
SumApis(categories, i) ==
    IF i > Len(categories) THEN 0
    ELSE (IF categories[i] \in DOMAIN ApiSpecsList.categories
          THEN Len(ApiSpecsList.categories[categories[i]]) ELSE 0)
         + SumApis(categories, i + 1)

count_apis_in_categories(categories) == SumApis(categories, 1)

(***************************** the run state *******************************)
\* datetime.utcnow().isoformat(): the clock is not modelled, its reading is one token
UtcNow == "utcnow"

\* mutant of NewBenchmarkState: the entry starts as pending
NewBenchmarkStatePending(request) ==
    [ status           |-> "pending",
      runs             |-> request.runs,
      categories       |-> request.categories,
      started_at       |-> UtcNow,
      results          |-> <<>>,
      current_progress |-> 0,
      total_runs       |-> request.runs * count_apis_in_categories(request.categories) ]

\* lines 89-97: the entry start_benchmark registers
NewBenchmarkState(request) ==
    [ status           |-> "running",
      runs             |-> request.runs,
      categories       |-> request.categories,
      started_at       |-> UtcNow,
      results          |-> <<>>,
      current_progress |-> 0,
      total_runs       |-> request.runs * count_apis_in_categories(request.categories) ]

\* the except branch of run_benchmark: status failed, error str(e)
Fail(state, message) == Put(Put(state, "status", "failed"), "error", message)

\* mutant of UpdateProgress: the numbers are stored, the phase and the message are not
UpdateProgressTorn(state, phase, current_run, total_runs_int, sub_progress, message) ==
    Put(Put(Put(Put(state,
        "current_progress", current_run),
        "sub_progress", sub_progress),
        "overall_progress_pct", OverallProgressPct(current_run, total_runs_int, sub_progress)),
        "last_update", UtcNow)

\* lines 183-189: the state update of a well-formed progress marker
UpdateProgress(state, phase, current_run, total_runs_int, sub_progress, message) ==
    Put(Put(Put(Put(Put(Put(state,
        "current_progress", current_run),
        "sub_progress", sub_progress),
        "overall_progress_pct", OverallProgressPct(current_run, total_runs_int, sub_progress)),
        "phase", phase),
        "last_update", UtcNow),
        "last_message", message)

\* mutant of MarkerParts: split("|") with no maxsplit
MarkerPartsUnlimited(line_str) == Split(Strip(Tail(line_str)), Len(line_str))

\* line 168: the fields of a marker line
MarkerParts(line_str) == Split(Strip(Tail(line_str)), 4)

\* the checks of lines 169-173: 5 parts, int(), int(), float() all succeed
WellFormed(line_str) ==
    LET parts == MarkerParts(line_str) IN
    /\ Len(parts) = 5
    /\ IsInt(parts[2])
    /\ IsInt(parts[3])
    /\ IsFloat(parts[4])

\* mutant of LegacyUpdate: the count goes up, the message is not stored
LegacyUpdateSilent(state, line_str) ==
    Put(Put(state,
        "current_progress", state["current_progress"] + 1),
        "last_update", UtcNow)

\* lines 196-199: the legacy marker
LegacyUpdate(state, line_str) ==
    Put(Put(Put(state,
        "current_progress", state["current_progress"] + 1),
        "last_update", UtcNow),
        "last_message", line_str)

\* mutant of HandleLine: the state is written field by field as the marker is parsed
HandleLineEager(state, line_str) ==
    IF StartsWithProgress(line_str)
    THEN LET parts == MarkerParts(line_str) IN
         IF WellFormed(line_str)
         THEN UpdateProgress(state, parts[1], ParseInt(parts[2]), ParseInt(parts[3]),
                             ParseFloat(parts[4]), parts[5])
         ELSE IF Len(parts) >= 2 /\ IsInt(parts[2])
         THEN Put(state, "current_progress", ParseInt(parts[2]))
         ELSE state
    ELSE IF ContainsLegacy(line_str)
         THEN LegacyUpdate(state, line_str)
         ELSE state

\* lines 165-200: what one decoded, stripped stdout line does to the run state
HandleLine(state, line_str) ==
    IF StartsWithProgress(line_str)
    THEN IF WellFormed(line_str)
         THEN LET parts == MarkerParts(line_str) IN
              UpdateProgress(state, parts[1], ParseInt(parts[2]), ParseInt(parts[3]),
                             ParseFloat(parts[4]), parts[5])
         ELSE state
    ELSE IF ContainsLegacy(line_str)
         THEN LegacyUpdate(state, line_str)
         ELSE state

(***************************** the result file *****************************)
NoFile == [exists |-> FALSE]

CsvFile(fieldnames, rows) == [exists |-> TRUE, fieldnames |-> fieldnames, rows |-> rows]

\* the columns benchmark.py writes (BenchmarkResult), in order
FullHeader == << "timestamp", "api_name", "api_provider", "api_category", "run_number",
                 "num_chunks", "embed_ms", "pg_write_ms", "chroma_write_ms", "query_text",
                 "query_embed_ms", "pg_query_ms", "chroma_query_ms", "pg_num_results",
                 "chroma_num_results", "db_size_pg_mb", "db_size_chroma_mb" >>

\* lines 233-245: result key, csv column, conversion, in evaluation order
RowFields == << <<"api_name", "api_name", "str">>,
                <<"api_category", "api_category", "str">>,
                <<"run_number", "run_number", "int">>,
                <<"num_chunks", "num_chunks", "int">>,
                <<"embed_ms", "embed_ms", "float">>,
                <<"pg_write_ms", "pg_write_ms", "float">>,
                <<"chroma_write_ms", "chroma_write_ms", "float">>,
                <<"pg_query_ms", "pg_query_ms", "float">>,
                <<"chroma_query_ms", "chroma_query_ms", "float">>,
                <<"pg_result_count", "pg_num_results", "int">>,
                <<"chroma_result_count", "chroma_num_results", "int">>,
                <<"db_size_pg_mb", "db_size_pg_mb", "float">>,
                <<"db_size_chroma_mb", "db_size_chroma_mb", "float">> >>

\* csv.DictReader: the row as a dict, a missing trailing cell is None
None == "<None>"

ColumnIndex(fieldnames, col) ==
    IF \E i \in 1..Len(fieldnames) : fieldnames[i] = col
    THEN CHOOSE i \in 1..Len(fieldnames) :
            /\ fieldnames[i] = col
            /\ \A j \in (i + 1)..Len(fieldnames) : fieldnames[j] # col
    ELSE 0

HasColumn(fieldnames, col) == ColumnIndex(fieldnames, col) # 0

Cell(fieldnames, cells, col) ==
    LET i == ColumnIndex(fieldnames, col) IN
    IF i <= Len(cells) THEN cells[i] ELSE None

\* whether row[col] converts: 0 when it does, else the exception raised
\* (KeyError, TypeError on None, ValueError)
FieldError(fieldnames, cells, f) ==
    IF ~HasColumn(fieldnames, f[2]) THEN <<"KeyError", f[2]>>
    ELSE LET c == Cell(fieldnames, cells, f[2]) IN
         IF f[3] = "str" THEN <<>>
         ELSE IF c = None THEN <<"TypeError", f[3]>>
         ELSE IF f[3] = "int" /\ ~IsInt(<<c>>) THEN <<"ValueError", "int", c>>
         ELSE IF f[3] = "float" /\ ~IsFloat(<<c>>) THEN <<"ValueError", "float", c>>
         ELSE <<>>

\* the first exception the dict display of lines 232-246 raises on a row, <<>> if none
RECURSIVE RowError(_, _, _)
RowError(fieldnames, cells, k) ==
    IF k > Len(RowFields) THEN <<>>
    ELSE LET e == FieldError(fieldnames, cells, RowFields[k]) IN
         IF e # <<>> THEN e ELSE RowError(fieldnames, cells, k + 1)

FieldValue(fieldnames, cells, f) ==
    LET c == Cell(fieldnames, cells, f[2]) IN
    CASE f[3] = "str"   -> c
      [] f[3] = "int"   -> ParseInt(<<c>>)
      [] f[3] = "float" -> ParseFloat(<<c>>)

\* the dict appended for a row that converts
ParseRow(fieldnames, cells) ==
    [ key \in { RowFields[k][1] : k \in 1..Len(RowFields) } |->
        LET k == CHOOSE k \in 1..Len(RowFields) : RowFields[k][1] = key
        IN  FieldValue(fieldnames, cells, RowFields[k]) ]

\* csv.DictReader skips a line with no cells
DataRows(file) == SelectSeq(file.rows, LAMBDA cells : cells # <<>>)

\* the first exception of the loop of lines 231-246, <<>> if every row converts
RECURSIVE FileError(_, _)
FileError(file, i) ==
    IF i > Len(DataRows(file)) THEN <<>>
    ELSE LET e == RowError(file.fieldnames, DataRows(file)[i], 1) IN
         IF e # <<>> THEN e ELSE FileError(file, i + 1)

LoadResults(file) ==
    [ i \in 1..Len(DataRows(file)) |-> ParseRow(file.fieldnames, DataRows(file)[i]) ]

(******************** lines 203-263: after stdout closed *******************)
ExitMessage(returncode, stderr_lines) ==
    <<"Benchmark process exited with code ", Str(returncode)>>
    \o (IF stderr_lines # <<>> THEN <<": ">> \o stderr_lines[1] ELSE <<>>)

DecodeError == <<"UnicodeDecodeError">>

\* mutant of FinishState: the nonzero-exit branch does not return
FinishStateNoReturn(state, returncode, stderr_data, file) ==
    IF stderr_data # <<>> /\ ~Decodable(stderr_data)
    THEN Fail(state, DecodeError)
    ELSE LET stderr_lines == IF stderr_data # <<>> THEN <<Strip(stderr_data)>> ELSE <<>>
             after == IF returncode # 0
                      THEN Fail(state, ExitMessage(returncode, stderr_lines))
                      ELSE state
         IN
         IF ~file.exists
         THEN Fail(after, <<"Results file not found: ", "/tmp/benchmark_<id>.csv">>)
         ELSE IF FileError(file, 1) # <<>>
         THEN Fail(after, FileError(file, 1))
         ELSE Put(Put(Put(after,
                  "results", LoadResults(file)),
                  "status", "completed"),
                  "completed_at", UtcNow)

\* mutant of FinishState: the rows are stored on the run as they are converted
FinishStateRowByRow(state, returncode, stderr_data, file) ==
    IF stderr_data # <<>> /\ ~Decodable(stderr_data)
    THEN Fail(state, DecodeError)
    ELSE LET stderr_lines == IF stderr_data # <<>> THEN <<Strip(stderr_data)>> ELSE <<>>
             rows == DataRows(file)
             good == {i \in 1..Len(rows) :
                        \A j \in 1..i : RowError(file.fieldnames, rows[j], 1) = <<>>}
             converted == [i \in 1..Cardinality(good) |-> ParseRow(file.fieldnames, rows[i])]
         IN
         IF returncode # 0
         THEN Fail(state, ExitMessage(returncode, stderr_lines))
         ELSE IF ~file.exists
         THEN Fail(state, <<"Results file not found: ", "/tmp/benchmark_<id>.csv">>)
         ELSE IF FileError(file, 1) # <<>>
         THEN Fail(Put(state, "results", converted), FileError(file, 1))
         ELSE Put(Put(Put(state,
                  "results", LoadResults(file)),
                  "status", "completed"),
                  "completed_at", UtcNow)

\* mutant of FinishState: a missing result file counts as a file with no rows
FinishStateMissingFileOk(state, returncode, stderr_data, file) ==
    IF stderr_data # <<>> /\ ~Decodable(stderr_data)
    THEN Fail(state, DecodeError)
    ELSE LET stderr_lines == IF stderr_data # <<>> THEN <<Strip(stderr_data)>> ELSE <<>> IN
         IF returncode # 0
         THEN Fail(state, ExitMessage(returncode, stderr_lines))
         ELSE IF file.exists /\ FileError(file, 1) # <<>>
         THEN Fail(state, FileError(file, 1))
         ELSE Put(Put(Put(state,
                  "results", IF file.exists THEN LoadResults(file) ELSE <<>>),
                  "status", "completed"),
                  "completed_at", UtcNow)

\* mutant of FinishState: a nonzero exit code ends the task with the state as it is
FinishStateSilentExit(state, returncode, stderr_data, file) ==
    IF stderr_data # <<>> /\ ~Decodable(stderr_data)
    THEN Fail(state, DecodeError)
    ELSE IF returncode # 0
         THEN state
         ELSE IF ~file.exists
         THEN Fail(state, <<"Results file not found: ", "/tmp/benchmark_<id>.csv">>)
         ELSE IF FileError(file, 1) # <<>>
         THEN Fail(state, FileError(file, 1))
         ELSE Put(Put(Put(state,
                  "results", LoadResults(file)),
                  "status", "completed"),
                  "completed_at", UtcNow)

FinishState(state, returncode, stderr_data, file) ==
    IF stderr_data # <<>> /\ ~Decodable(stderr_data)
    THEN Fail(state, DecodeError)
    ELSE LET stderr_lines == IF stderr_data # <<>> THEN <<Strip(stderr_data)>> ELSE <<>> IN
         IF returncode # 0
         THEN Fail(state, ExitMessage(returncode, stderr_lines))
         ELSE IF ~file.exists
         THEN Fail(state, <<"Results file not found: ", "/tmp/benchmark_<id>.csv">>)
         ELSE IF FileError(file, 1) # <<>>
         THEN Fail(state, FileError(file, 1))
         ELSE Put(Put(Put(state,
                  "results", LoadResults(file)),
                  "status", "completed"),
                  "completed_at", UtcNow)

(************************** the environment ********************************)
Marker(phase, current_run, total_runs, sub_progress, message) ==
    <<PROGRESS, WS, phase, "|", current_run, "|", total_runs, "|", sub_progress, "|">>
    \o message \o <<WS>>

\* stdout lines (bytes, as the pipe delivers them) a child may write
MarkerLines ==
    { Marker("ingest", "1", "2", "0.0", <<"start">>),
      Marker("ingest", "1", "2", "0.5", <<"start">>),
      Marker("query", "2", "2", "0.25", <<"q1">>),
      Marker("query", "3", "10", "0.5", <<"a", "|", "b">>),
      Marker("query", "2", "0", "0.5", <<"q1">>) }

MalformedLines ==
    { <<PROGRESS, WS, "ingest", "|", "1", "|", "2", "|", "0.5", WS>>,
      Marker("ingest", "one", "2", "0.5", <<"start">>),
      Marker("ingest", "1", "2.5", "0.5", <<"start">>),
      Marker("ingest", "1", "2", "half", <<"start">>),
      <<PROGRESS>> }

LegacyLines == { <<LEGACY, "1/3", WS>>, <<WS, "x", LEGACY, "2/3", WS>> }

OtherLines == { <<"Resetting databases...", WS>>, <<WS>> }

UndecodableLines == { <<"Ingesting", BadByte, WS>> }

StdoutLines == MarkerLines \cup MalformedLines \cup LegacyLines \cup OtherLines
               \cup UndecodableLines

\* result file rows
Cells(api_name, run_number) ==
    << "2025-01-01T00:00:00", api_name, "provider", "small", run_number, "3", "1.5", "0.5",
       "0.25", "query", "0.5", "0.5", "0.25", "3", "2", "1.5", "1.5" >>

RowA == Cells("petstore", "1")
RowB == Cells("httpbin", "2")
BadRow == Cells("petstore", "one")
ShortRow == SubSeq(RowA, 1, 5)

OldHeader == SelectSeq(FullHeader, LAMBDA col : col # "pg_num_results")

ResultFiles ==
    { NoFile,
      CsvFile(<<>>, <<>>),
      CsvFile(FullHeader, <<>>),
      CsvFile(FullHeader, <<RowA>>),
      CsvFile(FullHeader, <<RowA, RowB>>),
      CsvFile(FullHeader, <<RowB, <<>>, RowA>>),
      CsvFile(FullHeader, <<RowA, BadRow>>),
      CsvFile(FullHeader, <<ShortRow>>),
      CsvFile(OldHeader, <<SubSeq(RowA, 1, 16)>>) }

StderrData == { <<>>, <<WS>>, <<WS, "Traceback", WS>>, <<"Traceback", BadByte>> }

ReturnCodes == {0, 1, -9}

\* how a child may end: exit code, bytes left on stderr, result file
ChildOutcomes ==
    [returncode : ReturnCodes, stderr_data : StderrData, file : ResultFiles]

(***************************** the tasks ***********************************)
NoTask == [pc |-> "none", line_str |-> <<>>]
NoProc == [state |-> "none", returncode |-> 0, stderr_data |-> <<>>]
NoObserver == [pc |-> "idle", benchmark_id |-> 0, last_progress |-> 0,
               last_sub_progress |-> 0, last_message |-> <<>>, first_event |-> FALSE]

Init ==
    /\ active_benchmarks = [id \in {} |-> 0]
    /\ task   = [id \in BenchmarkIds |-> NoTask]
    /\ proc   = [id \in BenchmarkIds |-> NoProc]
    /\ files  = [id \in BenchmarkIds |-> NoFile]
    /\ obs    = [o \in Observers |-> NoObserver]
    /\ events = [o \in Observers |-> <<>>]
    /\ nlines = 0
    /\ lowered = [id \in BenchmarkIds |-> FALSE]
    /\ chunker = [pc |-> "none", text |-> <<>>, chunk_size |-> 0, overlap |-> 0,
                  chunks |-> <<>>]
    /\ extractor = [pc |-> "none", raw |-> <<>>, txt |-> <<>>]
    /\ embed = [h \in Handlers |->
                  [pc |-> "none", texts |-> <<>>, max_retries |-> 0, batch_start |-> 0,
                   retries |-> 0, all_embeddings |-> <<>>, requests |-> <<>>,
                   waits |-> <<>>]]
    /\ ingests = [h \in Handlers |->
                    [pc |-> "none",
                     req |-> [source |-> "", text |-> <<>>, url |-> <<>>, backend |-> "both",
                              chunk_size |-> <<>>, chunk_overlap |-> <<>>],
                     chunks |-> <<>>, response |-> [status |-> 0, body |-> <<>>]]]
    /\ documents = {}
    /\ serial = 1
    /\ collection = [id \in {} |-> 0]
    /\ writes = <<>>
    /\ driver = [pc |-> "none", runs_per_spec |-> 0, categories |-> <<>>, category |-> 0,
                 spec |-> 0, issue |-> 0, run |-> 0, query |-> 0, results |-> <<>>,
                 calls |-> <<>>, returncode |-> 0, file |-> [exists |-> FALSE],
                 stderr_data |-> <<>>, ingest_result |-> <<>>, db_size |-> <<>>]
    /\ replies = <<>>

\* POST /benchmark/start; benchmark_id is what uuid.uuid4() returned, an id no run has
start_benchmark(benchmark_id, request) ==
    /\ benchmark_id \notin DOMAIN active_benchmarks
    /\ \A j \in BenchmarkIds : j < benchmark_id => j \in DOMAIN active_benchmarks
    /\ active_benchmarks' = Put(active_benchmarks, benchmark_id, NewBenchmarkState(request))
    /\ task' = [task EXCEPT ![benchmark_id] = [pc |-> "created", line_str |-> <<>>]]
    /\ UNCHANGED <<proc, files, obs, events, nlines, lowered>>
    /\ UNCHANGED pipeVars
    /\ UNCHANGED <<driver, replies>>

\* run_benchmark, lines 118-153: the child process is started
Spawn(id) ==
    /\ task[id].pc = "created"
    /\ task' = [task EXCEPT ![id].pc = "reading"]
    /\ proc' = [proc EXCEPT ![id].state = "running"]
    /\ UNCHANGED <<active_benchmarks, files, obs, events, nlines, lowered>>
    /\ UNCHANGED pipeVars
    /\ UNCHANGED <<driver, replies>>

\* mutant of SpawnFails: the fault is recorded and the task goes on to read stdout
SpawnFailsKeepsGoing(id) ==
    /\ task[id].pc = "created"
    /\ task' = [task EXCEPT ![id].pc = "reading"]
    /\ active_benchmarks' = [active_benchmarks EXCEPT ![id] = Fail(@, <<"OSError">>)]
    /\ UNCHANGED <<proc, files, obs, events, nlines, lowered>>
    /\ UNCHANGED pipeVars
    /\ UNCHANGED <<driver, replies>>

\* create_subprocess_exec raises (OSError): the except branch
SpawnFails(id) ==
    /\ task[id].pc = "created"
    /\ task' = [task EXCEPT ![id].pc = "done"]
    /\ active_benchmarks' = [active_benchmarks EXCEPT ![id] = Fail(@, <<"OSError">>)]
    /\ UNCHANGED <<proc, files, obs, events, nlines, lowered>>
    /\ UNCHANGED pipeVars
    /\ UNCHANGED <<driver, replies>>

\* (current_progress, sub_progress) as a stream reads it
Pair(benchmark_state) ==
    <<Get(benchmark_state, "current_progress", 0), Get(benchmark_state, "sub_progress", 0)>>

\* lexicographic order on pairs
PairLeq(p, q) == p[1] < q[1] \/ (p[1] = q[1] /\ p[2] <= q[2])

\* one pass of the loop of lines 159-200 on the next stdout line
ReadLine(id, line) ==
    /\ task[id].pc = "reading"
    /\ nlines < MaxLines
    /\ nlines' = nlines + 1
    /\ IF Decodable(line)
       THEN /\ task' = [task EXCEPT ![id].line_str = Strip(line)]
            /\ active_benchmarks' =
                 [active_benchmarks EXCEPT ![id] = HandleLine(@, Strip(line))]
       ELSE /\ task' = [task EXCEPT ![id].pc = "done"]
            /\ active_benchmarks' = [active_benchmarks EXCEPT ![id] = Fail(@, DecodeError)]
    /\ lowered' = [lowered EXCEPT ![id] =
                     @ \/ ~PairLeq(Pair(active_benchmarks[id]), Pair(active_benchmarks'[id]))]
    /\ UNCHANGED <<proc, files, obs, events>>
    /\ UNCHANGED pipeVars
    /\ UNCHANGED <<driver, replies>>

\* the child closes stdout: the loop ends, the task awaits process.wait()
StdoutClosed(id) ==
    /\ task[id].pc = "reading"
    /\ task' = [task EXCEPT ![id].pc = "waiting"]
    /\ UNCHANGED <<active_benchmarks, proc, files, obs, events, nlines, lowered>>
    /\ UNCHANGED pipeVars
    /\ UNCHANGED <<driver, replies>>

\* the child exits; lines 203-263 run without suspension
Finish(id, outcome) ==
    /\ task[id].pc = "waiting"
    /\ proc' = [proc EXCEPT ![id] = [state |-> "exited", returncode |-> outcome.returncode,
                                     stderr_data |-> outcome.stderr_data]]
    /\ files' = [files EXCEPT ![id] = outcome.file]
    /\ task' = [task EXCEPT ![id].pc = "done"]
    /\ active_benchmarks' =
         [active_benchmarks EXCEPT ![id] =
            FinishState(@, outcome.returncode, outcome.stderr_data, outcome.file)]
    /\ UNCHANGED <<obs, events, nlines, lowered>>
    /\ UNCHANGED pipeVars
    /\ UNCHANGED <<driver, replies>>

(***************************** the stream **********************************)
\* mutant of stream_benchmark: the generator starts from the defaults of an idle
\* run, with no first-event flag
stream_benchmarkFromZero(o, benchmark_id) ==
    /\ obs[o].pc = "idle"
    /\ obs' = [obs EXCEPT ![o] =
                 IF benchmark_id \notin DOMAIN active_benchmarks
                 THEN [@ EXCEPT !.pc = "404", !.benchmark_id = benchmark_id]
                 ELSE [pc |-> "connected", benchmark_id |-> benchmark_id,
                       last_progress |-> 0, last_sub_progress |-> 0,
                       last_message |-> <<>>, first_event |-> FALSE]]
    /\ UNCHANGED <<active_benchmarks, task, proc, files, events, nlines, lowered>>
    /\ UNCHANGED pipeVars
    /\ UNCHANGED <<driver, replies>>

\* GET /benchmark/stream/{benchmark_id}: 404, or the generator is created (lines 280-283)
stream_benchmark(o, benchmark_id) ==
    /\ obs[o].pc = "idle"
    /\ obs' = [obs EXCEPT ![o] =
                 IF benchmark_id \notin DOMAIN active_benchmarks
                 THEN [@ EXCEPT !.pc = "404", !.benchmark_id = benchmark_id]
                 ELSE [pc |-> "connected", benchmark_id |-> benchmark_id,
                       last_progress |-> -1, last_sub_progress |-> -MILLI,
                       last_message |-> <<>>, first_event |-> TRUE]]
    /\ UNCHANGED <<active_benchmarks, task, proc, files, events, nlines, lowered>>
    /\ UNCHANGED pipeVars
    /\ UNCHANGED <<driver, replies>>

\* mutant of Changed: every poll sends the state
ChangedAlways(g, current_progress, current_sub_progress, current_message) == TRUE

\* lines 298-301
Changed(g, current_progress, current_sub_progress, current_message) ==
    \/ g.first_event
    \/ current_progress # g.last_progress
    \/ current_sub_progress # g.last_sub_progress
    \/ current_message # g.last_message

\* lines 305-315
ChangeEvent(benchmark_id, benchmark_state) ==
    [ benchmark_id         |-> benchmark_id,
      status               |-> benchmark_state["status"],
      progress             |-> Get(benchmark_state, "current_progress", 0),
      total                |-> Get(benchmark_state, "total_runs", 0),
      sub_progress         |-> Get(benchmark_state, "sub_progress", 0),
      overall_progress_pct |-> Get(benchmark_state, "overall_progress_pct", 0),
      phase                |-> Get(benchmark_state, "phase", <<>>),
      last_message         |-> Get(benchmark_state, "last_message", <<>>),
      timestamp            |-> UtcNow ]

\* mutant of FinalEvent: the final event carries the result rows
FinalEventWithResults(benchmark_id, benchmark_state) ==
    [ benchmark_id |-> benchmark_id,
      status       |-> benchmark_state["status"],
      progress     |-> Get(benchmark_state, "current_progress", 0),
      total        |-> Get(benchmark_state, "total_runs", 0),
      last_message |-> <<"Benchmark finished">>,
      timestamp    |-> UtcNow,
      message      |-> <<"Benchmark finished">>,
      results      |-> benchmark_state["results"] ]

\* mutant of FinalEvent: the final event reports the progress of a fresh run
FinalEventFromZero(benchmark_id, benchmark_state) ==
    [ benchmark_id |-> benchmark_id,
      status       |-> benchmark_state["status"],
      progress     |-> 0,
      total        |-> Get(benchmark_state, "total_runs", 0),
      last_message |-> <<"Benchmark finished">>,
      timestamp    |-> UtcNow,
      message      |-> <<"Benchmark finished">> ]

\* lines 326-335
FinalEvent(benchmark_id, benchmark_state) ==
    [ benchmark_id |-> benchmark_id,
      status       |-> benchmark_state["status"],
      progress     |-> Get(benchmark_state, "current_progress", 0),
      total        |-> Get(benchmark_state, "total_runs", 0),
      last_message |-> <<"Benchmark finished">>,
      timestamp    |-> UtcNow,
      message      |-> <<"Benchmark finished">> ]

\* mutant of Terminal: only a completed run ends the stream
TerminalCompletedOnly(benchmark_state) == benchmark_state["status"] = "completed"

\* line 323
Terminal(benchmark_state) == benchmark_state["status"] \in {"completed", "failed"}

\* lines 322-340 for observer o, whose generator is g and whose stream holds evs:
\* the final event and the end of the stream, or the sleep
CheckCompleted(o, g, evs) ==
    LET benchmark_state == active_benchmarks[g.benchmark_id] IN
    IF Terminal(benchmark_state)
    THEN /\ events' = [events EXCEPT ![o] = Append(evs, FinalEvent(g.benchmark_id, benchmark_state))]
         /\ obs' = [obs EXCEPT ![o] = [g EXCEPT !.pc = "done"]]
    ELSE /\ events' = [events EXCEPT ![o] = evs]
         /\ obs' = [obs EXCEPT ![o] = [g EXCEPT !.pc = "sleeping"]]

\* one pass of the loop of lines 285-340, from its top to its next suspension:
\* the yield of a change event, or else the sleep or the end of the stream
Poll(o) ==
    /\ obs[o].pc \in {"connected", "sleeping"}
    /\ LET g == obs[o]
           benchmark_state == active_benchmarks[g.benchmark_id]
           current_progress == Get(benchmark_state, "current_progress", 0)
           current_sub_progress == Get(benchmark_state, "sub_progress", 0)
           current_message == Get(benchmark_state, "last_message", <<>>)
       IN  IF Changed(g, current_progress, current_sub_progress, current_message)
           THEN /\ events' = [events EXCEPT ![o] =
                                Append(@, ChangeEvent(g.benchmark_id, benchmark_state))]
                /\ obs' = [obs EXCEPT ![o] =
                             [g EXCEPT !.pc = "yielded", !.first_event = FALSE,
                                       !.last_progress = current_progress,
                                       !.last_sub_progress = current_sub_progress,
                                       !.last_message = current_message]]
           ELSE CheckCompleted(o, g, events[o])
    /\ UNCHANGED <<active_benchmarks, task, proc, files, nlines, lowered>>
    /\ UNCHANGED pipeVars
    /\ UNCHANGED <<driver, replies>>

\* the generator is resumed after the yield of a change event: lines 318-340
Resume(o) ==
    /\ obs[o].pc = "yielded"
    /\ CheckCompleted(o, obs[o], events[o])
    /\ UNCHANGED <<active_benchmarks, task, proc, files, nlines, lowered>>
    /\ UNCHANGED pipeVars
    /\ UNCHANGED <<driver, replies>>

\* mutant of get_benchmark_status: the request stamps the entry it reads
get_benchmark_statusStamping(benchmark_id) ==
    /\ Len(replies) < MaxStatus
    /\ replies' = Append(replies,
                         IF benchmark_id \notin DOMAIN active_benchmarks
                         THEN [benchmark_id |-> benchmark_id, status |-> 404,
                               body |-> [detail |-> "Benchmark not found"]]
                         ELSE [benchmark_id |-> benchmark_id, status |-> 200,
                               body |-> active_benchmarks[benchmark_id]])
    /\ active_benchmarks' =
         IF benchmark_id \notin DOMAIN active_benchmarks THEN active_benchmarks
         ELSE [active_benchmarks EXCEPT ![benchmark_id] = Put(@, "last_update", "polled")]
    /\ UNCHANGED <<task, proc, files, obs, events, nlines, lowered>>
    /\ UNCHANGED pipeVars
    /\ UNCHANGED driver

\* GET /benchmark/status/{benchmark_id}, lines 353-359: 404, or the run state
get_benchmark_status(benchmark_id) ==
    /\ Len(replies) < MaxStatus
    /\ replies' = Append(replies,
                         IF benchmark_id \notin DOMAIN active_benchmarks
                         THEN [benchmark_id |-> benchmark_id, status |-> 404,
                               body |-> [detail |-> "Benchmark not found"]]
                         ELSE [benchmark_id |-> benchmark_id, status |-> 200,
                               body |-> active_benchmarks[benchmark_id]])
    /\ UNCHANGED benchVars
    /\ UNCHANGED pipeVars
    /\ UNCHANGED driver

(***************************** the pipeline ********************************)
\* an Optional[...] value: Missing is None, Given(x) is x
Missing == <<>>

Given(x) == <<x>>

\* Python's  text or ""  : the default replaces None and the empty string
OrText(opt, default) == IF opt = Missing \/ opt[1] = <<>> THEN default ELSE opt[1]

\* Python's  req.chunk_size or CHUNK_SIZE  : the default replaces None and 0
OrInt(opt, default) == IF opt = Missing \/ opt[1] = 0 THEN default ELSE opt[1]

Min(a, b) == IF a <= b THEN a ELSE b

Max(a, b) == IF a >= b THEN a ELSE b

\* Python's s[i:j]: a negative index counts from the end, both are clamped to the text
Slice(s, i, j) ==
    LET n  == Len(s)
        lo == IF i < 0 THEN Max(0, i + n) ELSE Min(i, n)
        hi == IF j < 0 THEN Max(0, j + n) ELSE Min(j, n)
    IN  SubSeq(s, lo + 1, hi)

\* chunk_text, the while loop (lines 27-32) entered with this start and these chunks.
\* The start moves by chunk_size - overlap in every pass, so a loop that has made
\* more windows than the text has characters never ends: returns is FALSE then.
RECURSIVE ChunkLoop(_, _, _, _, _)
ChunkLoop(t, chunk_size, overlap, start, chunks) ==
    LET n     == Len(t)
        end   == Min(n, start + chunk_size)
        added == Append(chunks, Slice(t, start, end))
    IN  IF ~(start < n) THEN [returns |-> TRUE, chunks |-> chunks]
        ELSE IF Len(chunks) > n THEN [returns |-> FALSE, chunks |-> chunks]
        ELSE IF end = n THEN [returns |-> TRUE, chunks |-> added]
        ELSE ChunkLoop(t, chunk_size, overlap, Max(0, end - overlap), added)

\* mutant of chunk_text: the text is not stripped
chunk_textUnstripped(text, chunk_size, overlap) ==
    LET t == OrText(text, <<>>)
    IN  IF t = <<>> THEN [returns |-> TRUE, chunks |-> <<>>]
        ELSE ChunkLoop(t, chunk_size, overlap, 0, <<>>)

\* mutant of chunk_text: the next window starts where the last one ended
chunk_textNoOverlap(text, chunk_size, overlap) ==
    LET t == Strip(OrText(text, <<>>))
    IN  IF t = <<>> THEN [returns |-> TRUE, chunks |-> <<>>]
        ELSE ChunkLoop(t, chunk_size, 0, 0, <<>>)

\* chunk_text(text, chunk_size, overlap): the chunks, or returns = FALSE when the
\* call never returns
chunk_text(text, chunk_size, overlap) ==
    LET t == Strip(OrText(text, <<>>))
    IN  IF t = <<>> THEN [returns |-> TRUE, chunks |-> <<>>]
        ELSE ChunkLoop(t, chunk_size, overlap, 0, <<>>)

\* a caller calls chunk_text(text, chunk_size, overlap): it returns, or runs forever
NoCall == [pc |-> "none", text |-> Missing, chunk_size |-> 0, overlap |-> 0, chunks |-> <<>>]

CallChunkText(text, chunk_size, overlap) ==
    /\ chunker.pc = "none"
    /\ LET r == chunk_text(text, chunk_size, overlap)
       IN  chunker' = [pc |-> IF r.returns THEN "returned" ELSE "running", text |-> text,
                       chunk_size |-> chunk_size, overlap |-> overlap, chunks |-> r.chunks]
    /\ UNCHANGED <<extractor, embed, ingests, documents, serial, collection, writes>>
    /\ UNCHANGED benchVars
    /\ UNCHANGED <<driver, replies>>

(*************************** the embedding client **************************)
\* config.EMBED_DIM, set through the environment; the model is configured with 2
EMBED_DIM == 2

BATCH_SIZE == 32

\* math.sqrt of an integer, in thousandths, rounded to the nearest
SqrtSearch[x \in Nat, lo \in Nat, hi \in Nat] ==
    IF lo = hi THEN lo
    ELSE LET mid == (lo + hi + 1) \div 2
         IN  IF mid * mid <= x THEN SqrtSearch[x, mid, hi] ELSE SqrtSearch[x, lo, mid - 1]

Sqrt(x) ==
    LET r == SqrtSearch[x * MILLI * MILLI, 0, 46 * MILLI]
    IN  IF x * MILLI * MILLI - r * r > r THEN r + 1 ELSE r

RECURSIVE SumSquares(_, _)
SumSquares(vec, i) == IF i > Len(vec) THEN 0 ELSE vec[i] * vec[i] + SumSquares(vec, i + 1)

\* mutant of l2_normalize: the vector is divided by the sum of squares, not by its root
l2_normalizeNoRoot(vec) ==
    LET sum == SumSquares(vec, 1)
        s   == IF sum = 0 THEN 1 ELSE sum
    IN  [i \in 1..Len(vec) |-> RoundDiv(vec[i] * MILLI, s)]

\* l2_normalize(vec): the components of vec are integers, those of the result are
\* thousandths;  s = math.sqrt(...) or 1.0
l2_normalize(vec) ==
    LET root == Sqrt(SumSquares(vec, 1))
        s    == IF root = 0 THEN MILLI ELSE root
    IN  [i \in 1..Len(vec) |-> RoundDiv(vec[i] * MILLI * MILLI, s)]

\* the ollama_embed coroutine of a handler
NoEmbed == [pc |-> "none", texts |-> <<>>, max_retries |-> 0, batch_start |-> 0,
            retries |-> 0, all_embeddings |-> <<>>, requests |-> <<>>, waits |-> <<>>]

\* texts[batch_start:batch_end]
Batch(e) == Slice(e.texts, e.batch_start, Min(e.batch_start + BATCH_SIZE, Len(e.texts)))

\* the for loop at lines 23-28 reaches batch_start: the batch is posted when the
\* while condition holds, the loop moves on when it does not, and after the last
\* batch all_embeddings is returned
RECURSIVE StartBatch(_, _)
StartBatch(e, batch_start) ==
    IF batch_start >= Len(e.texts) THEN [e EXCEPT !.pc = "returned"]
    ELSE IF 0 < e.max_retries
         THEN [e EXCEPT !.pc = "posting", !.batch_start = batch_start, !.retries = 0]
         ELSE StartBatch(e, batch_start + BATCH_SIZE)

\* ollama_embed(texts, max_retries) is called, lines 16-40
CallEmbed(texts, max_retries) ==
    LET e == [NoEmbed EXCEPT !.texts = texts, !.max_retries = max_retries]
    IN  IF texts = <<>> THEN [e EXCEPT !.pc = "returned"] ELSE StartBatch(e, 0)

RECURSIVE Pow3(_)
Pow3(n) == IF n <= 0 THEN 1 ELSE 3 * Pow3(n - 1)

\* lines 52-55: the vectors are checked and appended one by one, up to the first bad one
RECURSIVE AppendVectors(_, _, _)
AppendVectors(all_embeddings, embeddings, i) ==
    IF i > Len(embeddings) THEN [ok |-> TRUE, all_embeddings |-> all_embeddings]
    ELSE IF embeddings[i] = <<>> \/ Len(embeddings[i]) # EMBED_DIM
         THEN [ok |-> FALSE, all_embeddings |-> all_embeddings]
         ELSE AppendVectors(Append(all_embeddings, l2_normalize(embeddings[i])),
                            embeddings, i + 1)

Logged(e, r) ==
    [e EXCEPT !.requests = Append(@, [batch_start |-> e.batch_start, batch |-> Batch(e),
                                      response |-> r])]

\* mutant of HandleResponse: a response with too few vectors is accepted
HandleResponseAnyCount(e, r) ==
    LET a == AppendVectors(e.all_embeddings, r.embeddings, 1)
        l == Logged(e, r)
    IN  IF r.status = 200 /\ a.ok
        THEN StartBatch([l EXCEPT !.all_embeddings = a.all_embeddings],
                        e.batch_start + BATCH_SIZE)
        ELSE [l EXCEPT !.pc = "raised", !.all_embeddings = a.all_embeddings]

\* mutant of HandleResponse: not-ready is retried without counting the attempts
HandleResponseRetryForever(e, r) ==
    LET a == AppendVectors(e.all_embeddings, r.embeddings, 1)
        l == Logged(e, r)
    IN  CASE r.status = 404 ->
               [l EXCEPT !.pc = "sleeping", !.waits = Append(@, Pow3(e.retries))]
          [] r.status = 200 /\ Len(r.embeddings) = Len(Batch(e)) /\ a.ok ->
               StartBatch([l EXCEPT !.all_embeddings = a.all_embeddings],
                          e.batch_start + BATCH_SIZE)
          [] OTHER -> [l EXCEPT !.pc = "raised"]

\* lines 40-72: the answer r to the post arrives.  status 0 is a request that failed
\* without a response, a status of 400 and above makes raise_for_status raise
HandleResponse(e, r) ==
    LET a == AppendVectors(e.all_embeddings, r.embeddings, 1)
        l == Logged(e, r)
    IN  CASE r.status = 404 /\ e.retries < e.max_retries - 1 ->
               [l EXCEPT !.pc = "sleeping", !.waits = Append(@, Pow3(e.retries))]
          [] r.status = 200 /\ Len(r.embeddings) = Len(Batch(e)) /\ a.ok ->
               StartBatch([l EXCEPT !.all_embeddings = a.all_embeddings],
                          e.batch_start + BATCH_SIZE)
          [] r.status = 200 /\ Len(r.embeddings) = Len(Batch(e)) ->
               [l EXCEPT !.pc = "raised", !.all_embeddings = a.all_embeddings]
          [] OTHER -> [l EXCEPT !.pc = "raised"]

\* line 66 and the while condition at line 28, after asyncio.sleep returned
AfterSleep(e) ==
    IF e.retries + 1 < e.max_retries
    THEN [e EXCEPT !.pc = "posting", !.retries = e.retries + 1]
    ELSE StartBatch([e EXCEPT !.retries = e.retries + 1], e.batch_start + BATCH_SIZE)

(******************************* the stores ********************************)
\* vector_literal: every component printed with 7 decimals; a component of the
\* model has 3
vector_literal(vec) == [i \in 1..Len(vec) |-> RoundDiv(vec[i] * 10000, 10000)]

\* zip(chunks, embeddings) stops at the shorter list
ZipLen(chunks, embeddings) == Min(Len(chunks), Len(embeddings))

Rows(docs, source) == {row \in docs : row.source = source}

\* mutant of Inserted: the embeddings are taken from the end of the list
RECURSIVE InsertedReversed(_, _, _, _, _, _)
InsertedReversed(docs, next_id, source, chunks, embeddings, k) ==
    IF k = 0 THEN docs
    ELSE InsertedReversed(docs, next_id, source, chunks, embeddings, k - 1) \cup
         { [id |-> next_id + k - 1, source |-> source, chunk_id |-> k - 1,
            content |-> chunks[k],
            embedding |-> vector_literal(embeddings[Len(embeddings) - k + 1])] }

\* the INSERT statements 1..k of replace_source, each committed on its own
RECURSIVE Inserted(_, _, _, _, _, _)
Inserted(docs, next_id, source, chunks, embeddings, k) ==
    IF k = 0 THEN docs
    ELSE Inserted(docs, next_id, source, chunks, embeddings, k - 1) \cup
         { [id |-> next_id + k - 1, source |-> source, chunk_id |-> k - 1,
            content |-> chunks[k], embedding |-> vector_literal(embeddings[k])] }

\* mutant of replace_source: the rows of the source are not deleted first
replace_sourceAppend(docs, next_id, source, chunks, embeddings, fault) ==
    LET n    == ZipLen(chunks, embeddings)
        done == IF fault = 0 THEN n ELSE Max(0, fault - 3)
    IN  [ok |-> fault = 0,
         documents |-> Inserted(docs, next_id, source, chunks, embeddings, done),
         serial |-> next_id + done]

\* replace_source(source, chunks, embeddings) on the table docs.  The connection is
\* in autocommit mode, so every statement that was executed stays.  fault is the
\* statement that raises: 0 none, 1 the connect, 2 the DELETE, 2 + i the i-th INSERT
replace_source(docs, next_id, source, chunks, embeddings, fault) ==
    LET n       == ZipLen(chunks, embeddings)
        done    == IF fault = 0 THEN n ELSE Max(0, fault - 3)
        deleted == IF fault \in {1, 2} THEN docs ELSE docs \ Rows(docs, source)
    IN  [ok |-> fault = 0,
         documents |-> Inserted(deleted, next_id, source, chunks, embeddings, done),
         serial |-> next_id + done]

\* the id of an entry of the collection: f"{source}::{i}"
EntryId(source, i) == <<source, "::", i>>

\* upsert_source(source, chunks, embeddings) on the collection coll: one upsert call,
\* which the server rejects as a whole (fault, or lists of different lengths) or applies
upsert_source(coll, source, chunks, embeddings, fault) ==
    LET ids == {EntryId(source, i - 1) : i \in 1..Len(chunks)}
    IN  IF fault \/ Len(embeddings) # Len(chunks) THEN [ok |-> FALSE, collection |-> coll]
        ELSE [ok |-> TRUE,
              collection |->
                [id \in DOMAIN coll \cup ids |->
                    IF id \in ids
                    THEN [document |-> chunks[id[3] + 1], embedding |-> embeddings[id[3] + 1],
                          metadata |-> [source |-> source, chunk |-> id[3]]]
                    ELSE coll[id]]]

(******************************* the ingest ********************************)
\* config.CHUNK_SIZE and config.CHUNK_OVERLAP, set through the environment; the
\* texts of the model are a few characters long and it is configured with 3 and 1
CHUNK_SIZE == 3

CHUNK_OVERLAP == 1

\* the default of ollama_embed's max_retries
DEFAULT_MAX_RETRIES == 5

NL == "\n"

RECURSIVE Join(_, _)
Join(parts, sep) ==
    IF parts = <<>> THEN <<>>
    ELSE IF Len(parts) = 1 THEN parts[1]
    ELSE parts[1] \o <<sep>> \o Join(Tail(parts), sep)

\* a document: its characters and what json.loads / yaml.load make of them.
\* data.kind: "unparsable" (both parsers raise), "scalar" (not a dict), "raising"
\* (a dict whose walk raises), "mapping" (a dict; parts are the fragments the walk
\* of lines 66-122 collects, in order), "exits" (not JSON, and a tag of the text makes
\* yaml.load with the UnsafeLoader, line 55, call a function that raises outside
\* Exception, as sys.exit does)
Document(text, kind, parts) == [text |-> text, data |-> [kind |-> kind, parts |-> parts]]

\* the handlers of lines 56 and 130 catch Exception only: what yaml.load raises
\* outside Exception leaves extract_text_from_openapi
ExtractionExits(raw) == raw.data.kind = "exits"

\* extract_text_from_openapi(raw), where it returns
extract_text_from_openapi(raw) ==
    IF raw.data.kind = "mapping"
    THEN LET kept == SelectSeq(raw.data.parts, LAMBDA x : x # <<>> /\ Strip(x) # <<>>)
             txt  == Join(kept, NL)
         IN  IF Strip(txt) # <<>> THEN txt ELSE raw.text
    ELSE raw.text

\* a caller calls extract_text_from_openapi(raw): it returns a text, or raises
CallExtract(raw) ==
    /\ extractor.pc = "none"
    /\ extractor' = IF ExtractionExits(raw)
                    THEN [pc |-> "raised", raw |-> raw, txt |-> <<>>]
                    ELSE [pc |-> "returned", raw |-> raw,
                          txt |-> extract_text_from_openapi(raw)]
    /\ UNCHANGED <<chunker, embed, ingests, documents, serial, collection, writes>>
    /\ UNCHANGED benchVars
    /\ UNCHANGED <<driver, replies>>

NoRequest == [source |-> "", text |-> Missing, url |-> Missing, backend |-> "both",
              chunk_size |-> Missing, chunk_overlap |-> Missing]

NoResponse == [status |-> 0, body |-> <<>>]

NoIngest == [pc |-> "none", req |-> NoRequest, chunks |-> <<>>, response |-> NoResponse]

\* raise HTTPException(status, detail), or an exception that reaches the framework
Error(g, status, detail) ==
    [g EXCEPT !.pc = "done", !.response = [status |-> status, body |-> [detail |-> detail]]]

\* mutant of AfterRaw: an empty list of chunks is not rejected
AfterRawUnchecked(g, raw) ==
    LET c == chunk_text(Given(extract_text_from_openapi(raw)),
                        OrInt(g.req.chunk_size, CHUNK_SIZE),
                        OrInt(g.req.chunk_overlap, CHUNK_OVERLAP))
    IN  IF ExtractionExits(raw) THEN [ingest |-> [g EXCEPT !.pc = "exited"], embed |-> NoEmbed]
        ELSE IF ~c.returns THEN [ingest |-> [g EXCEPT !.pc = "chunking"], embed |-> NoEmbed]
        ELSE [ingest |-> [g EXCEPT !.pc = "embedding", !.chunks = c.chunks],
              embed |-> CallEmbed(c.chunks, DEFAULT_MAX_RETRIES)]

\* ingest, lines 38-45, once raw is known: the handler and its ollama_embed call
AfterRaw(g, raw) ==
    LET c == chunk_text(Given(extract_text_from_openapi(raw)),
                        OrInt(g.req.chunk_size, CHUNK_SIZE),
                        OrInt(g.req.chunk_overlap, CHUNK_OVERLAP))
    IN  IF ExtractionExits(raw) THEN [ingest |-> [g EXCEPT !.pc = "exited"], embed |-> NoEmbed]
        ELSE IF ~c.returns THEN [ingest |-> [g EXCEPT !.pc = "chunking"], embed |-> NoEmbed]
        ELSE IF c.chunks = <<>>
        THEN [ingest |-> Error(g, 400, "No text to ingest after parsing/chunking."),
              embed |-> NoEmbed]
        ELSE [ingest |-> [g EXCEPT !.pc = "embedding", !.chunks = c.chunks],
              embed |-> CallEmbed(c.chunks, DEFAULT_MAX_RETRIES)]

\* POST /ingest, lines 35-45, up to the first await
ingest(h, req) ==
    /\ ingests[h].pc = "none" /\ embed[h].pc = "none"
    /\ \A j \in DOMAIN ingests : j < h => ingests[j].pc # "none"
    /\ LET g    == [NoIngest EXCEPT !.req = req]
           none == /\ req.text = Missing \/ req.text[1].text = <<>>
                   /\ req.url = Missing \/ req.url[1] = ""
           next == AfterRaw(g, req.text[1])
       IN  IF none
           THEN /\ ingests' = [ingests EXCEPT ![h] =
                                 Error(g, 400, "Provide either 'text' or 'url'.")]
                /\ UNCHANGED embed
           ELSE IF req.text = Missing
           THEN /\ ingests' = [ingests EXCEPT ![h] = [g EXCEPT !.pc = "fetching"]]
                /\ UNCHANGED embed
           ELSE /\ ingests' = [ingests EXCEPT ![h] = next.ingest]
                /\ embed' = [embed EXCEPT ![h] = next.embed]
    /\ UNCHANGED <<chunker, extractor, documents, serial, collection, writes>>
    /\ UNCHANGED benchVars
    /\ UNCHANGED <<driver, replies>>

\* _http_get_text returns the document at req.url
Fetched(h, raw) ==
    /\ ingests[h].pc = "fetching"
    /\ LET next == AfterRaw(ingests[h], raw)
       IN  /\ ingests' = [ingests EXCEPT ![h] = next.ingest]
           /\ embed' = [embed EXCEPT ![h] = next.embed]
    /\ UNCHANGED <<chunker, extractor, documents, serial, collection, writes>>
    /\ UNCHANGED benchVars
    /\ UNCHANGED <<driver, replies>>

\* _http_get_text raises
FetchFails(h) ==
    /\ ingests[h].pc = "fetching"
    /\ ingests' = [ingests EXCEPT ![h] = Error(@, 500, "Internal Server Error")]
    /\ UNCHANGED <<chunker, extractor, embed, documents, serial, collection, writes>>
    /\ UNCHANGED benchVars
    /\ UNCHANGED <<driver, replies>>

\* the out dict of ingest with these keys; a latency is the token "ms"
Out(req, chunks, keys) ==
    [k \in keys |-> CASE k = "source" -> req.source
                      [] k = "num_chunks" -> Len(chunks)
                      [] OTHER -> "ms"]

Write(h, backend, req, chunks, ok) ==
    [h |-> h, backend |-> backend, source |-> req.source, chunks |-> chunks, ok |-> ok]

\* mutant of EmbedFailed: the handler goes on after a failed embedding
EmbedFailedIgnored(e) == FALSE

\* line 45: the exception of ollama_embed leaves the handler
EmbedFailed(e) == e.pc = "raised"

\* ingest, lines 45-60, once ollama_embed has returned or raised: the writes to the
\* backends and the response.  pg_fault and chroma_fault are what the backends do
FinishIngest(h, pg_fault, chroma_fault) ==
    /\ ingests[h].pc = "embedding" /\ embed[h].pc \in {"returned", "raised"}
    /\ LET g      == ingests[h]
           req    == g.req
           embeds == embed[h].all_embeddings
           use_pg == req.backend \in {"pg", "both"}
           pg     == replace_source(documents, serial, req.source, g.chunks, embeds, pg_fault)
           pg_ok  == ~use_pg \/ pg.ok
           use_ch == pg_ok /\ req.backend \in {"chroma", "both"}
           ch     == upsert_source(collection, req.source, g.chunks, embeds, chroma_fault)
           ch_ok  == ~use_ch \/ ch.ok
           keys   == {"source", "num_chunks", "embed_ms"}
                       \cup (IF use_pg THEN {"pg_write_ms"} ELSE {})
                       \cup (IF use_ch THEN {"chroma_write_ms"} ELSE {})
       IN  IF EmbedFailed(embed[h])
           THEN /\ ingests' = [ingests EXCEPT ![h] = Error(g, 500, "Internal Server Error")]
                /\ pg_fault = 0 /\ ~chroma_fault
                /\ UNCHANGED <<documents, serial, collection, writes>>
           ELSE /\ pg_fault <= ZipLen(g.chunks, embeds) + 2
                /\ use_pg \/ pg_fault = 0
                /\ use_ch \/ ~chroma_fault
                /\ documents' = IF use_pg THEN pg.documents ELSE documents
                /\ serial' = IF use_pg THEN pg.serial ELSE serial
                /\ collection' = IF use_ch THEN ch.collection ELSE collection
                /\ writes' = writes
                     \o (IF use_pg THEN <<Write(h, "pg", req, g.chunks, pg.ok)>> ELSE <<>>)
                     \o (IF use_ch THEN <<Write(h, "chroma", req, g.chunks, ch.ok)>> ELSE <<>>)
                /\ ingests' = [ingests EXCEPT ![h] =
                      IF pg_ok /\ ch_ok
                      THEN [g EXCEPT !.pc = "done",
                                     !.response = [status |-> 200,
                                                   body |-> Out(req, g.chunks, keys)]]
                      ELSE Error(g, 500, "Internal Server Error")]
    /\ UNCHANGED <<chunker, extractor, embed>>
    /\ UNCHANGED benchVars
    /\ UNCHANGED <<driver, replies>>

\* a caller awaits ollama_embed(texts, max_retries)
ollama_embed(h, texts, max_retries) ==
    /\ embed[h].pc = "none" /\ ingests[h].pc = "none"
    /\ embed' = [embed EXCEPT ![h] = CallEmbed(texts, max_retries)]
    /\ UNCHANGED <<chunker, extractor, ingests, documents, serial, collection, writes>>
    /\ UNCHANGED benchVars
    /\ UNCHANGED <<driver, replies>>

\* what the embedding service sends for a text: a vector of integers
CharCode(c) ==
    CASE c = "a" -> 1 [] c = "b" -> 2 [] c = "c" -> 3 [] c = "d" -> 4 [] c = "e" -> 5
      [] c = "f" -> 6 [] c = "g" -> 7 [] c = "h" -> 8 [] c = "i" -> 9 [] OTHER -> 0

RECURSIVE TextCode(_)
TextCode(text) == IF text = <<>> THEN 0 ELSE CharCode(Head(text)) + TextCode(Tail(text))

ServiceVector(text, k) ==
    [i \in 1..EMBED_DIM |-> IF i = 1 THEN (TextCode(text) % 7) - 3 ELSE k]

\* the answers of the embedding service to the post of a batch
Response(batch, answer) ==
    LET good == [i \in 1..Len(batch) |-> ServiceVector(batch[i], answer.k)]
        n    == Len(batch)
    IN  CASE answer.kind = "ok"       -> [status |-> 200, embeddings |-> good]
          [] answer.kind = "vec"      -> [status |-> 200, embeddings |-> [i \in 1..n |-> answer.vec]]
          [] answer.kind = "short"    -> [status |-> 200, embeddings |-> SubSeq(good, 1, n - 1)]
          [] answer.kind = "long"     -> [status |-> 200, embeddings |-> Append(good, good[1])]
          [] answer.kind = "wide"     ->
               [status |-> 200, embeddings |-> [good EXCEPT ![n] = Append(@, 0)]]
          [] answer.kind = "hollow"   -> [status |-> 200, embeddings |-> [good EXCEPT ![n] = <<>>]]
          [] answer.kind = "nokey"    -> [status |-> 200, embeddings |-> <<>>]
          [] answer.kind = "notready" -> [status |-> 404, embeddings |-> <<>>]
          [] answer.kind = "error"    -> [status |-> 500, embeddings |-> <<>>]
          [] OTHER                    -> [status |-> 0, embeddings |-> <<>>]

Answer(kind, k) == [kind |-> kind, k |-> k, vec |-> <<>>]

\* the embedding service answers the post of handler h
Respond(h, answer) ==
    /\ embed[h].pc = "posting"
    /\ embed' = [embed EXCEPT ![h] = HandleResponse(@, Response(Batch(@), answer))]
    /\ UNCHANGED <<chunker, extractor, ingests, documents, serial, collection, writes>>
    /\ UNCHANGED benchVars
    /\ UNCHANGED <<driver, replies>>

\* asyncio.sleep(wait_time) returns
Wake(h) ==
    /\ embed[h].pc = "sleeping"
    /\ embed' = [embed EXCEPT ![h] = AfterSleep(@)]
    /\ UNCHANGED <<chunker, extractor, ingests, documents, serial, collection, writes>>
    /\ UNCHANGED benchVars
    /\ UNCHANGED <<driver, replies>>

(************************* the benchmark driver ****************************)
\* benchmark.py, run as the child process of run 1.  A call of the service either
\* returns or raises (the request fails, or raise_for_status raises)

\* a local of run_benchmark_for_spec that no statement has assigned yet
Unbound == <<>>

\* what POST /ingest answers: the fields the driver reads (lines 146-149)
IngestResult(num_chunks, embed_ms, pg_write_ms, chroma_write_ms) ==
    [num_chunks |-> num_chunks, embed_ms |-> embed_ms, pg_write_ms |-> pg_write_ms,
     chroma_write_ms |-> chroma_write_ms]

\* the locals db_size_pg and db_size_chroma
Sizes(db_size_pg, db_size_chroma) ==
    [db_size_pg |-> db_size_pg, db_size_chroma |-> db_size_chroma]

\* lines 157-158: the sizes of a stats answer, 0 for a field it does not have
SizesOf(stats) == Sizes(Get(stats, "pg_size_mb", "0"), Get(stats, "chroma_size_mb", "0"))

\* lines 160-161: the sizes when the stats call fails
ZeroSizes == Sizes("0", "0")

NoDriver == [pc |-> "none", runs_per_spec |-> 0, categories |-> <<>>, category |-> 0,
             spec |-> 0, issue |-> 0, run |-> 0, query |-> 0, results |-> <<>>,
             calls |-> <<>>, returncode |-> 0, file |-> NoFile, stderr_data |-> <<>>,
             ingest_result |-> Unbound, db_size |-> Unbound]

\* generate_queries: the five query templates, in order
generate_queries(api_name, category) ==
    << <<"API endpoints for ", api_name>>,
       <<"authentication methods in ", api_name>>,
       <<"data models and schemas">>,
       <<"rate limiting and quotas">>,
       <<"error handling and status codes">> >>

\* specs_data['categories'][category]['specs']
CategorySpecs(category) == ApiSpecsList.categories[category]

\* spec_info["name"] of the spec the driver is at
ApiName(d) == CategorySpecs(d.categories[d.category])[d.spec]

\* history: a call of the service has returned value (ok) or raised
CalledWith(d, op, ok, value) ==
    [d EXCEPT !.calls = Append(@, [op |-> op, issue |-> d.issue, run |-> d.run,
                                   query |-> d.query, ok |-> ok, value |-> value])]

Called(d, op, ok) == CalledWith(d, op, ok, <<>>)

Faults(d) == Len(SelectSeq(d.calls, LAMBDA c : ~c.ok))

\* the line save_results writes for a BenchmarkResult
RowCells(result) ==
    [Cells(result.api_name, Str(result.run_number)) EXCEPT
        ![4] = result.api_category,
        ![6] = result.num_chunks, ![7] = result.embed_ms,
        ![8] = result.pg_write_ms, ![9] = result.chroma_write_ms,
        ![10] = result.query_text,
        ![16] = result.db_size_pg_mb, ![17] = result.db_size_chroma_mb]

\* save_results: no file when there is no result
save_results(results) ==
    IF results = <<>> THEN NoFile
    ELSE CsvFile(FullHeader, [i \in 1..Len(results) |-> RowCells(results[i])])

\* print_summary: statistics.stdev raises on the one result of an API that has one
SummaryRaises(results) ==
    \E i \in 1..Len(results) :
        \A j \in 1..Len(results) : results[j].api_name = results[i].api_name => j = i

Traceback == <<"Traceback", WS>>

\* main, lines 307-319: run_all_benchmarks has returned or has raised; every
\* Exception is caught and printed, so the process exits with code 0
MainEnds(d, raised) ==
    [d EXCEPT !.pc = "exited",
              !.returncode = 0,
              !.file = IF raised THEN NoFile ELSE save_results(d.results),
              !.stderr_data = IF raised \/ SummaryRaises(d.results) THEN Traceback ELSE <<>>]

\* run_all_benchmarks, the for loops of lines 217-228 arrive at this spec of this
\* category: an unknown category is skipped
RECURSIVE NextSpec(_, _, _)
NextSpec(d, category, spec) ==
    IF category > Len(d.categories) THEN MainEnds(d, FALSE)
    ELSE IF d.categories[category] \notin DOMAIN ApiSpecsList.categories
    THEN NextSpec(d, category + 1, 1)
    ELSE IF spec > Len(CategorySpecs(d.categories[category]))
    THEN NextSpec(d, category + 1, 1)
    ELSE [d EXCEPT !.pc = "download", !.category = category, !.spec = spec,
                   !.issue = @ + 1, !.run = 0, !.query = 0,
                   !.ingest_result = Unbound, !.db_size = Unbound]

\* mutant of NextRun: the repetition starts with the ingest
NextRunNoReset(d, run) ==
    IF run > d.runs_per_spec THEN NextSpec(d, d.category, d.spec + 1)
    ELSE [d EXCEPT !.pc = "ingest", !.run = run, !.query = 0]

\* run_benchmark_for_spec, the for loop of line 134 arrives at this repetition
NextRun(d, run) ==
    IF run > d.runs_per_spec THEN NextSpec(d, d.category, d.spec + 1)
    ELSE [d EXCEPT !.pc = "reset", !.run = run, !.query = 0]

\* the child starts: main with the arguments of the command line of run 1
main ==
    /\ driver.pc = "none" /\ proc[1].state = "running"
    /\ driver' = NextSpec([NoDriver EXCEPT !.runs_per_spec = active_benchmarks[1]["runs"],
                                           !.categories = active_benchmarks[1]["categories"]],
                          1, 1)
    /\ UNCHANGED benchVars
    /\ UNCHANGED pipeVars
    /\ UNCHANGED replies

\* lines 121-127: the download of the spec; a failure ends run_benchmark_for_spec
fetch_spec(ok) ==
    /\ driver.pc = "download" /\ (ok \/ Faults(driver) < MaxFaults)
    /\ driver' = IF ok THEN NextRun(Called(driver, "fetch_spec", TRUE), 1)
                  ELSE NextSpec(Called(driver, "fetch_spec", FALSE),
                                driver.category, driver.spec + 1)
    /\ UNCHANGED benchVars
    /\ UNCHANGED pipeVars
    /\ UNCHANGED replies

\* lines 138-140: the reset of both backends, outside every try
reset_databases(ok) ==
    /\ driver.pc = "reset" /\ (ok \/ Faults(driver) < MaxFaults)
    /\ driver' = IF ok THEN [Called(driver, "reset_databases", TRUE) EXCEPT !.pc = "ingest"]
                  ELSE MainEnds(Called(driver, "reset_databases", FALSE), TRUE)
    /\ UNCHANGED benchVars
    /\ UNCHANGED pipeVars
    /\ UNCHANGED replies

\* mutant of ingest_spec: a failed ingest does not skip the repetition
ingest_specGoesOn(ok, ingest_result) ==
    /\ driver.pc = "ingest" /\ (ok \/ Faults(driver) < MaxFaults)
    /\ driver' = IF ok
                  THEN [CalledWith(driver, "ingest_spec", TRUE, ingest_result)
                            EXCEPT !.pc = "stats", !.ingest_result = ingest_result]
                  ELSE [Called(driver, "ingest_spec", FALSE) EXCEPT !.pc = "stats"]
    /\ UNCHANGED benchVars
    /\ UNCHANGED pipeVars
    /\ UNCHANGED replies

\* lines 143-152: the ingest, which returns ingest_result; a failure skips the
\* repetition
ingest_spec(ok, ingest_result) ==
    /\ driver.pc = "ingest" /\ (ok \/ Faults(driver) < MaxFaults)
    /\ driver' = IF ok
                  THEN [CalledWith(driver, "ingest_spec", TRUE, ingest_result)
                            EXCEPT !.pc = "stats", !.ingest_result = ingest_result]
                  ELSE NextRun(Called(driver, "ingest_spec", FALSE), driver.run + 1)
    /\ UNCHANGED benchVars
    /\ UNCHANGED pipeVars
    /\ UNCHANGED replies

\* lines 155-161: the sizes the stats call returns, taken as 0 when the call fails
get_db_stats(ok, stats) ==
    /\ driver.pc = "stats" /\ (ok \/ Faults(driver) < MaxFaults)
    /\ driver' = [CalledWith(driver, "get_db_stats", ok, IF ok THEN stats ELSE <<>>)
                     EXCEPT !.pc = "query", !.query = 1,
                            !.db_size = IF ok THEN SizesOf(stats) ELSE ZeroSizes]
    /\ UNCHANGED benchVars
    /\ UNCHANGED pipeVars
    /\ UNCHANGED replies

\* lines 164-196: one pass of the loop over the queries; a row is appended when
\* the query returned and nothing in the try raised (reading a local that is not
\* bound raises)
query_spec(ok) ==
    /\ driver.pc = "query" /\ (ok \/ Faults(driver) < MaxFaults)
    /\ LET queries == generate_queries(ApiName(driver), driver.categories[driver.category])
           result  == [issue |-> driver.issue, api_name |-> ApiName(driver),
                       api_category |-> driver.categories[driver.category],
                       run_number |-> driver.run, query |-> driver.query,
                       num_chunks |-> driver.ingest_result.num_chunks,
                       embed_ms |-> driver.ingest_result.embed_ms,
                       pg_write_ms |-> driver.ingest_result.pg_write_ms,
                       chroma_write_ms |-> driver.ingest_result.chroma_write_ms,
                       query_text |-> queries[driver.query],
                       db_size_pg_mb |-> driver.db_size.db_size_pg,
                       db_size_chroma_mb |-> driver.db_size.db_size_chroma]
           d       == Called(driver, "query_spec", ok)
           after   == IF ok /\ driver.ingest_result # Unbound
                      THEN [d EXCEPT !.results = Append(@, result)] ELSE d
       IN  driver' = IF driver.query < Len(queries)
                     THEN [after EXCEPT !.query = @ + 1]
                     ELSE NextRun(after, driver.run + 1)
    /\ UNCHANGED benchVars
    /\ UNCHANGED pipeVars
    /\ UNCHANGED replies

\* the child has ended: its stdout is at its end
ChildClosesStdout == driver.pc = "exited" /\ StdoutClosed(1)

\* process.wait() returns with what the child has left
ChildExits ==
    /\ driver.pc = "exited"
    /\ Finish(1, [returncode |-> driver.returncode, stderr_data |-> driver.stderr_data,
                  file |-> driver.file])

(*************************** specifications ********************************)
\* inputs of the whole service: two runs, their observers
SysLines ==
    { Marker("ingest", "1", "2", "0.5", <<"start">>),
      Marker("query", "2", "2", "0.25", <<"q1">>),
      Marker("ingest", "one", "2", "0.5", <<"start">>),
      <<LEGACY, "1/3", WS>> }

SysOutcomes ==
    { [returncode |-> 1, stderr_data |-> <<"Traceback">>, file |-> NoFile],
      [returncode |-> 0, stderr_data |-> <<>>, file |-> NoFile],
      [returncode |-> 0, stderr_data |-> <<>>, file |-> CsvFile(FullHeader, <<RowA, BadRow>>)],
      [returncode |-> 0, stderr_data |-> <<>>, file |-> CsvFile(FullHeader, <<RowA, RowB>>)] }

\* the service with runs ids, stream clients observers, and these inputs
Service(ids, observers, requests, lines, outcomes) ==
    \/ \E id \in ids, request \in requests : start_benchmark(id, request)
    \/ \E id \in ids : Spawn(id)
    \/ \E id \in ids : SpawnFails(id)
    \/ \E id \in ids, line \in lines : ReadLine(id, line)
    \/ \E id \in ids : StdoutClosed(id)
    \/ \E id \in ids, outcome \in outcomes : Finish(id, outcome)
    \/ \E o \in observers, id \in BenchmarkIds : stream_benchmark(o, id)
    \/ \E o \in observers : Poll(o)
    \/ \E o \in observers : Resume(o)

\* one run and two observers of it
Next == Service({1}, Observers, Requests, SysLines, SysOutcomes)

Spec == Init /\ [][Next]_vars

\* one run and two observers of it, under the scheduling of the event loop: it runs
\* every ready task, and a sleeping generator wakes up
FewRequests == { [runs |-> 1, categories |-> <<"small">>] }

FewLines == { Marker("query", "2", "2", "0.25", <<"q1">>), <<LEGACY, "1/3", WS>> }

FairNext == Service({1}, Observers, FewRequests, FewLines, SysOutcomes)

FairSpec ==
    /\ Init /\ [][FairNext]_vars
    /\ \A o \in Observers : WF_vars(Poll(o)) /\ WF_vars(Resume(o))

\* two runs and one observer
MultiNext == Service(BenchmarkIds, {1}, FewRequests, FewLines, SysOutcomes)

MultiSpec == Init /\ [][MultiNext]_vars

\* two runs, a stream client and status requests
RegistryLines == { Marker("query", "2", "2", "0.25", <<"q1">>) }

RegistryOutcomes ==
    { [returncode |-> 1, stderr_data |-> <<"Traceback">>, file |-> NoFile],
      [returncode |-> 0, stderr_data |-> <<>>, file |-> CsvFile(FullHeader, <<RowA, RowB>>)] }

RegistryNext ==
    \/ Service(BenchmarkIds, {1}, FewRequests, RegistryLines, RegistryOutcomes)
    \/ \E id \in BenchmarkIds : get_benchmark_status(id)

RegistrySpec == Init /\ [][RegistryNext]_vars

\* one run, every kind of stdout line and child outcome, no observer
RunNext ==
    \/ \E request \in Requests : start_benchmark(1, request)
    \/ Spawn(1)
    \/ SpawnFails(1)
    \/ \E line \in StdoutLines : ReadLine(1, line)
    \/ StdoutClosed(1)
    \/ \E outcome \in ChildOutcomes : Finish(1, outcome)

RunSpec == Init /\ [][RunNext]_vars

\* one run fed well-formed markers of every literal
PctLines ==
    { Marker("ingest", cr, tr, sp, <<"m">>) :
        cr \in DOMAIN IntLiterals, tr \in DOMAIN IntLiterals, sp \in DOMAIN FloatLiterals }

PctNext ==
    \/ \E request \in Requests : start_benchmark(1, request)
    \/ Spawn(1)
    \/ \E line \in PctLines : ReadLine(1, line)

PctSpec == Init /\ [][PctNext]_vars

\* one run and an observer of it; the child writes markers with every current_run,
\* and legacy lines
CountLines ==
    { Marker("ingest", cr, "2", "0.5", <<"m">>) : cr \in DOMAIN IntLiterals }
    \cup LegacyLines

CountNext == Service({1}, {1}, Requests, CountLines, RegistryOutcomes)

CountSpec == Init /\ [][CountNext]_vars

\* one run and two observers of it; the child writes two markers that differ in
\* every field, and a legacy line
SnapMarkers == { <<"ingest", "1", "2", "0.25", <<"m1">>>>,
                 <<"query", "2", "2", "0.5", <<"q1">>>> }

SnapLegacy == <<LEGACY, "1/3", WS>>

SnapLines == { Marker(m[1], m[2], m[3], m[4], m[5]) : m \in SnapMarkers } \cup {SnapLegacy}

SnapNext == Service({1}, Observers, FewRequests, SnapLines, RegistryOutcomes)

SnapSpec == Init /\ [][SnapNext]_vars

\* one run fed every kind of stdout line; the child ends in every way it may, and
\* once the child has exited the event loop resumes the task that awaits it
ExitNext ==
    \/ \E request \in FewRequests : start_benchmark(1, request)
    \/ Spawn(1)
    \/ SpawnFails(1)
    \/ \E line \in StdoutLines : ReadLine(1, line)
    \/ StdoutClosed(1)
    \/ \E outcome \in ChildOutcomes : Finish(1, outcome)

ExitSpec ==
    /\ Init /\ [][ExitNext]_vars
    /\ WF_vars(\E outcome \in ChildOutcomes : Finish(1, outcome))

\* one run, a stream and status requests; the result file may be missing, may
\* have a row that does not convert after one that does, or may be whole
ResultsNext ==
    \/ Service({1}, {1}, FewRequests, RegistryLines, SysOutcomes)
    \/ \E id \in BenchmarkIds : get_benchmark_status(id)

ResultsSpec == Init /\ [][ResultsNext]_vars

\* one run; the child writes legacy lines, markers, markers and malformed markers
\* that hold the legacy substring, and other lines
LegacyMixLines ==
    LegacyLines \cup OtherLines
    \cup { Marker("query", "2", "2", "0.25", <<"q1">>),
           Marker("ingest", "1", "2", "0.5", <<LEGACY, "1/3">>),
           Marker("ingest", "one", "2", "0.5", <<LEGACY, "1/3">>),
           <<PROGRESS, WS, LEGACY, "1/3", WS>> }

LegacyNext ==
    \/ \E request \in Requests : start_benchmark(1, request)
    \/ Spawn(1)
    \/ \E line \in LegacyMixLines : ReadLine(1, line)
    \/ StdoutClosed(1)
    \/ \E outcome \in RegistryOutcomes : Finish(1, outcome)

LegacySpec == Init /\ [][LegacyNext]_vars

\* one run; the child writes markers whose message has pipes, and every line that
\* is cut short of such a marker
Messages == UNION {[1..len -> {"a", "|"}] : len \in 0..MaxMessage}

SplitBody(message) == <<"query", "|", "3", "|", "10", "|", "0.5", "|">> \o message

SplitLines ==
    UNION { { <<PROGRESS, WS>> \o SubSeq(SplitBody(m), 1, n) \o <<WS>> :
                n \in 0..(8 + Len(m)) } : m \in Messages }

SplitNext ==
    \/ \E request \in Requests : start_benchmark(1, request)
    \/ Spawn(1)
    \/ \E line \in SplitLines : ReadLine(1, line)

SplitSpec == Init /\ [][SplitNext]_vars

\* one run and an observer of it; the child writes markers with every sub_progress
RangeLines == { Marker("ingest", "1", "2", sp, <<"m">>) : sp \in DOMAIN FloatLiterals }

RangeNext == Service({1}, {1}, FewRequests, RangeLines, RegistryOutcomes)

RangeSpec == Init /\ [][RangeNext]_vars

(************************ specifications of the pipeline ********************)
\* chunk_text called once, with every text of up to MaxText characters
Texts(n) == UNION {[1..len -> {WS, "a", "b"}] : len \in 0..n}

ChunkNext ==
    \E t \in {Missing} \cup {Given(x) : x \in Texts(MaxText)},
       chunk_size \in (-1)..MaxText, overlap \in (-1)..MaxText :
        CallChunkText(t, chunk_size, overlap)

ChunkSpec == Init /\ [][ChunkNext]_vars

\* extract_text_from_openapi called once: every text of up to MaxText characters,
\* and what the parsers make of it. A blank text is no mapping: json.loads raises
\* and yaml.load returns None or raises.
Fragments == { <<>>, <<WS>>, <<"t">>, <<WS, "t", NL>> }

PartLists == UNION {[1..len -> Fragments] : len \in 0..MaxParts}

RawDocuments ==
    { Document(text, kind, <<>>) :
        text \in Texts(MaxText), kind \in {"unparsable", "scalar"} }
    \cup { Document(text, kind, <<>>) :
        text \in {t \in Texts(MaxText) : Strip(t) # <<>>}, kind \in {"raising", "exits"} }
    \cup { Document(text, "mapping", parts) :
        text \in {t \in Texts(MaxText) : Strip(t) # <<>>}, parts \in PartLists }

ExtractNext == \E raw \in RawDocuments : CallExtract(raw)

ExtractSpec == Init /\ [][ExtractNext]_vars

\* the i-th text of a list of texts: two letters
Letters == <<"j", "a", "b", "c", "d", "e", "f", "g", "h", "i">>

Text(i) == <<Letters[(i \div 10) + 1], Letters[(i % 10) + 1]>>

TextList(n) == [i \in 1..n |-> Text(i)]

\* the lengths of the lists: none, one, and around every full batch
Counts == {0, 1} \cup {b * BATCH_SIZE + d : b \in 1..MaxBatches, d \in {-1, 0, 1}}

EmbedAnswers ==
    {Answer("ok", 1), Answer("ok", 2), Answer("short", 1), Answer("long", 1),
     Answer("wide", 1), Answer("hollow", 1), Answer("nokey", 1), Answer("notready", 1),
     Answer("error", 1), Answer("failed", 1)}

\* one call of ollama_embed, and the embedding service answering in every way
EmbedNext ==
    \/ \E n \in Counts, max_retries \in 0..MaxRetries : ollama_embed(1, TextList(n), max_retries)
    \/ \E answer \in EmbedAnswers : Respond(1, answer)
    \/ Wake(1)

EmbedSpec == Init /\ [][EmbedNext]_vars

\* the same with a service that does not leave a post pending for ever (a post that
\* gets no other answer gets the not-ready one) and with sleeps that return
EmbedFairSpec ==
    /\ Init /\ [][EmbedNext]_vars
    /\ WF_vars(Respond(1, Answer("notready", 1)))
    /\ WF_vars(Wake(1))

\* one call of ollama_embed with the default max_retries, and the embedding service
\* answering not-ready, with the vectors, or with another error
BackoffNext ==
    \/ \E n \in Counts : ollama_embed(1, TextList(n), DEFAULT_MAX_RETRIES)
    \/ \E answer \in {Answer("notready", 1), Answer("ok", 1), Answer("error", 1)} :
          Respond(1, answer)
    \/ Wake(1)

BackoffSpec == Init /\ [][BackoffNext]_vars

\* one call of ollama_embed, and the embedding service sending every vector
Vectors == [1..EMBED_DIM -> (-MaxComponent)..MaxComponent]

NormNext ==
    \/ \E n \in {1, 2}, max_retries \in {1, DEFAULT_MAX_RETRIES} :
          ollama_embed(1, TextList(n), max_retries)
    \/ \E vec \in Vectors : Respond(1, [kind |-> "vec", k |-> 0, vec |-> vec])

NormSpec == Init /\ [][NormNext]_vars

\* the ingest requests
Doc(text) == Document(text, "scalar", <<>>)

IngestRequest(source, text, backend) ==
    [source |-> source, text |-> Given(Doc(text)), url |-> Missing, backend |-> backend,
     chunk_size |-> Missing, chunk_overlap |-> Missing]

\* one source ingested again and again with one, two or three chunks, and another source
ReingestRequests ==
    { IngestRequest("s1", <<"a", "b", "c">>, "both"),
      IngestRequest("s1", <<"a", "b", "c", "d", "e">>, "both"),
      IngestRequest("s1", <<"a", "b", "c", "d", "e", "f", "g">>, "both"),
      IngestRequest("s2", <<"a", "b", "c", "d">>, "both") }

\* the ingest handlers, their documents, the embedding service and the backends
Pipeline(handlers, requests, documents_at_url, answers, pg_faults, chroma_faults) ==
    \/ \E h \in handlers, req \in requests : ingest(h, req)
    \/ \E h \in handlers, raw \in documents_at_url : Fetched(h, raw)
    \/ \E h \in handlers : FetchFails(h)
    \/ \E h \in handlers, answer \in answers : Respond(h, answer)
    \/ \E h \in handlers : Wake(h)
    \/ \E h \in handlers, pg_fault \in pg_faults, chroma_fault \in chroma_faults :
          FinishIngest(h, pg_fault, chroma_fault)


\* ingests of one source after another, nothing failing
ReingestNext ==
    \/ \E h \in Handlers, req \in ReingestRequests : ingest(h, req)
    \/ \E h \in Handlers : Respond(h, Answer("ok", 1))
    \/ \E h \in Handlers : FinishIngest(h, 0, FALSE)

ReingestSpec == Init /\ [][ReingestNext]_vars

\* one ingest of a text whose request gives a chunk_size and a chunk_overlap, or
\* leaves them out; IngestRequest takes every integer for them
SizeOptions == {Missing} \cup { Given(n) : n \in (-1)..CHUNK_SIZE }

SizedRequests ==
    { [IngestRequest("s1", t, "both") EXCEPT !.chunk_size = cs, !.chunk_overlap = ov] :
        t \in { <<"a", "b", "c">>, <<"a", "b", "c", "d", "e">> },
        cs \in SizeOptions, ov \in SizeOptions }

SizedNext ==
    \/ \E req \in SizedRequests : ingest(1, req)
    \/ Respond(1, Answer("ok", 1))
    \/ FinishIngest(1, 0, FALSE)

SizedSpec == Init /\ [][SizedNext]_vars

\* two ingests, of a text or of a url, to one backend or to both, with an embedding
\* service and backends that fail
IngestRequests ==
    { IngestRequest("s1", <<"a", "b", "c">>, "both"),
      IngestRequest("s1", <<"a", "b", "c", "d", "e">>, "both"),
      IngestRequest("s1", <<"a", "b", "c", "d", "e">>, "pg"),
      IngestRequest("s1", <<"a", "b", "c", "d", "e">>, "chroma"),
      IngestRequest("s2", <<WS>>, "both"),
      [IngestRequest("s2", <<>>, "both") EXCEPT !.text = Missing],
      [IngestRequest("s2", <<>>, "both") EXCEPT !.url = Given("")],
      [IngestRequest("s2", <<>>, "both") EXCEPT !.text = Missing, !.url = Given("u")] }

DocumentsAtUrl == { Doc(<<"a", "b", "c", "d">>), Doc(<<>>) }

IngestAnswers == {Answer("ok", 1), Answer("notready", 1), Answer("error", 1)}

IngestNext ==
    Pipeline({1, 2}, IngestRequests, DocumentsAtUrl, IngestAnswers, {0, 1, 2, 3, 4}, BOOLEAN)

IngestSpec == Init /\ [][IngestNext]_vars

\* a text that makes one chunk more than a batch holds, with chunks of 2 characters
LongText == [i \in 1..(BATCH_SIZE + 2) |-> Letters[(i % 10) + 1]]

\* an ingest of one batch and then one of two batches, with an embedding service
\* that fails in every way and backends that do not
ShortRequest == IngestRequest("s1", <<"a", "b", "c", "d", "e">>, "both")

LongRequest == [IngestRequest("s2", LongText, "both") EXCEPT !.chunk_size = Given(2)]

EmbedFailAnswers ==
    {Answer("ok", 1), Answer("notready", 1), Answer("error", 1), Answer("short", 1),
     Answer("wide", 1)}

EmbedFailNext ==
    \/ ingest(1, ShortRequest)
    \/ ingest(2, LongRequest)
    \/ \E h \in {1, 2}, answer \in EmbedFailAnswers : Respond(h, answer)
    \/ \E h \in {1, 2} : Wake(h)
    \/ \E h \in {1, 2} : FinishIngest(h, 0, FALSE)

EmbedFailSpec == Init /\ [][EmbedFailNext]_vars

\* one run of the benchmark, with its child process and calls that fail
DriverRequests == Requests \cup { [runs |-> 1, categories |-> <<"small", "small">>] }

\* what the service answers to the driver's ingest and stats calls
IngestResultA == IngestResult("3", "1.5", "0.5", "0.25")

IngestResultB == IngestResult("2", "0.5", "0.25", "0.5")

StatsA == [pg_size_mb |-> "1.5", chroma_size_mb |-> "1.5"]

StatsB == [pg_size_mb |-> "0.25", chroma_size_mb |-> "0.5"]

\* a stats answer without the size of the relational store
StatsC == [chroma_size_mb |-> "0.5"]

DriverNext ==
    \/ \E request \in DriverRequests : start_benchmark(1, request)
    \/ Spawn(1)
    \/ main
    \/ \E ok \in BOOLEAN : fetch_spec(ok)
    \/ \E ok \in BOOLEAN : reset_databases(ok)
    \/ \E ok \in BOOLEAN : ingest_spec(ok, IngestResultA)
    \/ \E ok \in BOOLEAN : get_db_stats(ok, StatsA)
    \/ \E ok \in BOOLEAN : query_spec(ok)
    \/ ChildClosesStdout
    \/ ChildExits

DriverSpec == Init /\ [][DriverNext]_vars

\* one run of two repetitions of the two specs of a category: the ingest and the
\* stats call of every repetition fail or return one of two answers
SampleRequests == { [runs |-> 2, categories |-> <<"small">>] }

SampleNext ==
    \/ \E request \in SampleRequests : start_benchmark(1, request)
    \/ Spawn(1)
    \/ main
    \/ fetch_spec(TRUE)
    \/ reset_databases(TRUE)
    \/ \E ok \in BOOLEAN, r \in {IngestResultA, IngestResultB} : ingest_spec(ok, r)
    \/ \E ok \in BOOLEAN, stats \in {StatsB, StatsC} : get_db_stats(ok, stats)
    \/ query_spec(TRUE)
    \/ ChildClosesStdout
    \/ ChildExits

SampleSpec == Init /\ [][SampleNext]_vars

(******************************* claims ************************************)
Abs(x) == IF x < 0 THEN -x ELSE x

Last(seq) == seq[Len(seq)]

\* C1: the status of a run only ever moves running -> completed or running -> failed,
\* and once it is completed or failed no step of any task changes the run's status
\* or results
C1_TerminalIsFinal ==
    [][\A id \in DOMAIN active_benchmarks :
         LET old == active_benchmarks[id]
             new == active_benchmarks'[id]
         IN  /\ old["status"] \in {"completed", "failed"} =>
                  new["status"] = old["status"] /\ new["results"] = old["results"]
             /\ new["status"] # old["status"] =>
                  old["status"] = "running" /\ new["status"] \in {"completed", "failed"}
      ]_vars

\* run 1 has completed with rows and its observer has since ended its stream,
\* while run 2 has failed
C1_Witness ==
    /\ DOMAIN active_benchmarks = {1, 2}
    /\ active_benchmarks[1]["status"] = "completed"
    /\ active_benchmarks[1]["results"] # <<>>
    /\ active_benchmarks[2]["status"] = "failed"
    /\ obs[1].pc = "done" /\ obs[1].benchmark_id = 1

IntColumns == {"run_number", "num_chunks", "pg_num_results", "chroma_num_results"}
FloatColumns == {"embed_ms", "pg_write_ms", "chroma_write_ms", "pg_query_ms",
                 "chroma_query_ms", "db_size_pg_mb", "db_size_chroma_mb"}
StrColumns == {"api_name", "api_category"}

NumberOf(cell) ==
    IF cell \in DOMAIN FloatLiterals THEN FloatLiterals[cell] ELSE MILLI * IntLiterals[cell]

\* a row of the file converts: each column read is there, each number is a number
RowConverts(file, cells) ==
    /\ \A col \in IntColumns \cup FloatColumns \cup StrColumns :
         \E i \in 1..Len(file.fieldnames) : file.fieldnames[i] = col
    /\ \A i \in 1..Len(file.fieldnames) :
         /\ file.fieldnames[i] \in IntColumns =>
              i <= Len(cells) /\ cells[i] \in DOMAIN IntLiterals
         /\ file.fieldnames[i] \in FloatColumns =>
              i <= Len(cells) /\ cells[i] \in (DOMAIN FloatLiterals) \cup (DOMAIN IntLiterals)

\* the j-th line of the file that holds cells
RECURSIVE NonBlank(_)
NonBlank(rows) ==
    IF rows = <<>> THEN <<>>
    ELSE (IF Head(rows) = <<>> THEN <<>> ELSE <<Head(rows)>>) \o NonBlank(Tail(rows))

\* C2: a run is completed only if its child exited with code 0, its result file
\* existed and every row of it converted; its results are then the converted rows
\* of the file, in file order
C2_CompletedOnlyOnSuccess ==
    \A id \in DOMAIN active_benchmarks :
      active_benchmarks[id]["status"] = "completed" =>
        /\ proc[id].state = "exited" /\ proc[id].returncode = 0
        /\ files[id].exists
        /\ LET rows == NonBlank(files[id].rows)
               results == active_benchmarks[id]["results"]
           IN  /\ \A i \in 1..Len(rows) : RowConverts(files[id], rows[i])
               /\ Len(results) = Len(rows)
               /\ \A i \in 1..Len(rows) :
                    /\ DOMAIN results[i] =
                         { "api_name", "api_category", "run_number", "num_chunks", "embed_ms",
                           "pg_write_ms", "chroma_write_ms", "pg_query_ms", "chroma_query_ms",
                           "pg_result_count", "chroma_result_count", "db_size_pg_mb",
                           "db_size_chroma_mb" }
                    /\ results[i]["api_name"] = rows[i][2]
                    /\ results[i]["api_category"] = rows[i][4]
                    /\ results[i]["run_number"] = IntLiterals[rows[i][5]]
                    /\ results[i]["num_chunks"] = IntLiterals[rows[i][6]]
                    /\ results[i]["embed_ms"] = NumberOf(rows[i][7])
                    /\ results[i]["pg_write_ms"] = NumberOf(rows[i][8])
                    /\ results[i]["chroma_write_ms"] = NumberOf(rows[i][9])
                    /\ results[i]["pg_query_ms"] = NumberOf(rows[i][12])
                    /\ results[i]["chroma_query_ms"] = NumberOf(rows[i][13])
                    /\ results[i]["pg_result_count"] = IntLiterals[rows[i][14]]
                    /\ results[i]["chroma_result_count"] = IntLiterals[rows[i][15]]
                    /\ results[i]["db_size_pg_mb"] = NumberOf(rows[i][16])
                    /\ results[i]["db_size_chroma_mb"] = NumberOf(rows[i][17])

\* a run completed from a file of two different rows, a blank line between them
C2_Witness ==
    /\ 1 \in DOMAIN active_benchmarks
    /\ active_benchmarks[1]["status"] = "completed"
    /\ Len(files[1].rows) = 3
    /\ Len(active_benchmarks[1]["results"]) = 2
    /\ active_benchmarks[1]["results"][1]["api_name"] = "httpbin"
    /\ active_benchmarks[1]["results"][2]["api_name"] = "petstore"

C9_MalformedIgnored ==
    [][\A line \in MalformedLines :
         ReadLine(1, line) =>
           /\ active_benchmarks' = active_benchmarks
           /\ task'[1].pc = "reading"
      ]_vars

\* a malformed marker was read after progress had been recorded, and the run goes on
C9_Witness ==
    /\ 1 \in DOMAIN active_benchmarks
    /\ task[1].pc = "reading"
    /\ task[1].line_str = Strip(Marker("ingest", "1", "2", "half", <<"start">>))
    /\ active_benchmarks[1]["status"] = "running"
    /\ active_benchmarks[1]["current_progress"] = 3
    /\ nlines = 2

\* the literals of the well-formed marker last read by run 1, <<>> if it is none
LastMarker ==
    LET hits == { m \in (DOMAIN IntLiterals) \X (DOMAIN IntLiterals) \X (DOMAIN FloatLiterals) :
                    task[1].line_str = Strip(Marker("ingest", m[1], m[2], m[3], <<"m">>)) }
    IN  IF hits = {} THEN <<>> ELSE CHOOSE m \in hits : TRUE

\* C10 as stated: the stored percentage is ((current_run - 1 + sub_progress) /
\* total_runs) * 100 exactly, 25.0 for 3, 10, 0.5, and 0 for total_runs = 0
C10_Original ==
    LastMarker # <<>> =>
      LET m == LastMarker
          n == (IntLiterals[m[1]] - 1) * MILLI + FloatLiterals[m[3]]
          total == IntLiterals[m[2]]
          stored == active_benchmarks[1]["overall_progress_pct"]
      IN  /\ total # 0 => stored * total = n
          /\ total = 0 => stored = 0
          /\ m = <<"3", "10", "0.5">> => stored = 250

\* C10 as amended: for total_runs > 0 the stored percentage is that value rounded to
\* one decimal place (within 0.05 of it), 25.0 for 3, 10, 0.5; for total_runs <= 0
\* it is 0
C10_RoundedPct ==
    LastMarker # <<>> =>
      LET m == LastMarker
          n == (IntLiterals[m[1]] - 1) * MILLI + FloatLiterals[m[3]]
          total == IntLiterals[m[2]]
          stored == active_benchmarks[1]["overall_progress_pct"]
      IN  /\ total > 0 => 2 * Abs(stored * total - n) <= total
          /\ total <= 0 => stored = 0
          /\ m = <<"3", "10", "0.5">> => stored = 250

\* the marker 3 of 10 at 0.5 was read
C10_Witness ==
    /\ LastMarker = <<"3", "10", "0.5">>
    /\ active_benchmarks[1]["overall_progress_pct"] = 250
    /\ active_benchmarks[1]["current_progress"] = 3
    /\ active_benchmarks[1]["sub_progress"] = 500

\* the run observer o streams
RunOf(o) == active_benchmarks[obs[o].benchmark_id]

Streaming(o) == obs[o].pc \in {"connected", "yielded", "sleeping"}

Ended(benchmark_state) == benchmark_state["status"] \in {"completed", "failed"}

\* the final event is the one with the fixed completion message, a change event the
\* one with a sub_progress
IsFinal(e) == "message" \in DOMAIN e
IsChange(e) == "sub_progress" \in DOMAIN e

\* C4: the first pass of an observer's polling loop, before any sleep, puts one
\* change event on its stream, which carries the run state of that moment, whatever
\* that state is
C4_FirstEventAtOnce ==
    [][\A o \in Observers :
         obs[o].pc = "connected" /\ obs'[o].pc # "connected" =>
           /\ events[o] = <<>>
           /\ Len(events'[o]) >= 1
           /\ IsChange(events'[o][1]) /\ ~IsFinal(events'[o][1])
           /\ events'[o][1].status = RunOf(o)["status"]
           /\ events'[o][1].progress = RunOf(o)["current_progress"]
           /\ events'[o][1].total = RunOf(o)["total_runs"]
      ]_vars

\* observer 1 got its first event from a run with no progress yet, observer 2 got
\* its first event from a run that had already ended
C4_Witness ==
    /\ events[1] # <<>> /\ events[2] # <<>>
    /\ events[1][1].status = "running"
    /\ events[1][1].progress = 0 /\ events[1][1].sub_progress = 0
    /\ events[1][1].last_message = <<>>
    /\ IsChange(events[2][1])
    /\ events[2][1].status = "completed"

Tuple(e) == <<e.progress, e.sub_progress, e.last_message>>

C6_OneFinalEvent ==
    \A o \in Observers :
      LET evs == events[o]
          finals == { i \in 1..Len(evs) : IsFinal(evs[i]) }
      IN  /\ Cardinality(finals) <= 1
          /\ finals # {} => finals = {Len(evs)} /\ obs[o].pc = "done"
          /\ obs[o].pc = "done" =>
               /\ finals = {Len(evs)}
               /\ Last(evs).status \in {"completed", "failed"}
               /\ Last(evs).status = RunOf(o)["status"]
               /\ Last(evs).message = <<"Benchmark finished">>
          /\ \A i \in 1..Len(evs) :
               /\ "results" \notin DOMAIN evs[i]
               /\ DOMAIN evs[i] \subseteq
                    { "benchmark_id", "status", "progress", "total", "sub_progress",
                      "overall_progress_pct", "phase", "last_message", "timestamp", "message" }

\* the run completed with rows; observer 1 connected while it ran, observer 2 after
\* it had ended, and both streams have ended
C6_Witness ==
    /\ obs[1].pc = "done" /\ obs[2].pc = "done"
    /\ RunOf(1)["status"] = "completed" /\ RunOf(1)["results"] # <<>>
    /\ Len(events[1]) >= 3 /\ events[1][1].status = "running"
    /\ Len(events[2]) = 2 /\ events[2][1].status = "completed"
    /\ IsFinal(events[2][2])

\* C7: once the run has ended, every observer streaming it eventually sends its
\* final event and ends; a stream ends only when its run has ended
C7_StreamEnds ==
    /\ \A o \in Observers :
         (Streaming(o) /\ Ended(RunOf(o)))
           ~> (obs[o].pc = "done" /\ events[o] # <<>> /\ IsFinal(Last(events[o])))
    /\ [](\A o \in Observers : obs[o].pc = "done" => Ended(RunOf(o)))

\* an observer of a failed run has ended its stream
C7_Witness ==
    /\ obs[1].pc = "done"
    /\ RunOf(1)["status"] = "failed"
    /\ IsFinal(Last(events[1]))
    /\ Streaming(2) /\ obs[2].benchmark_id = 1

\* b is not below a in (progress, sub_progress); a final event has no sub_progress
EventLeq(a, b) ==
    IF IsChange(b)
    THEN PairLeq(<<a.progress, a.sub_progress>>, <<b.progress, b.sub_progress>>)
    ELSE a.progress <= b.progress

NonDecreasing(evs) == \A i \in 1..(Len(evs) - 1) : EventLeq(evs[i], evs[i + 1])

\* C8 as stated: the events of an observer are non-decreasing in (progress,
\* sub_progress), whatever lines the child writes
C8_Original == \A o \in Observers : NonDecreasing(events[o])

\* C8 as amended: the events of an observer are non-decreasing in (progress,
\* sub_progress) as long as no line of the child has lowered that pair of the run
C8_MonotoneUnlessLowered ==
    \A o \in Observers :
      obs[o].pc \in {"connected", "yielded", "sleeping", "done"}
      /\ ~lowered[obs[o].benchmark_id]
      => NonDecreasing(events[o])

\* an observer saw the pair rise twice and then the final event
C8_Witness ==
    /\ ~lowered[1]
    /\ Len(events[1]) = 4
    /\ events[1][1].progress < events[1][2].progress
    /\ events[1][2].progress < events[1][3].progress
    /\ IsFinal(events[1][4])

(************************** claims on the chunker **************************)
\* the arguments the chunker is specified for
ValidArgs(c) == c.chunk_size > 0 /\ 0 <= c.overlap /\ c.overlap < c.chunk_size

Blank(text) == text = Missing \/ \A i \in 1..Len(text[1]) : text[1][i] \in {WS, "\n"}

Trimmed(c) == Strip(OrText(c.text, <<>>))

\* where the i-th chunk starts when every chunk starts overlap characters before the
\* end of the one before it, and the first at 0
RECURSIVE StartOf(_, _, _)
StartOf(chunks, overlap, i) ==
    IF i = 1 THEN 0 ELSE StartOf(chunks, overlap, i - 1) + Len(chunks[i - 1]) - overlap

\* C11: for a text that is not blank and 0 <= overlap < chunk_size, chunk_text returns
\* consecutive windows of the trimmed text: the first starts at 0, each next one
\* starts overlap characters before the end of the one before it, all but the last
\* are chunk_size long, the last ends at the end of the text, and every character of
\* the text is in a window.
C11_Windows ==
    (chunker.pc # "none" /\ ValidArgs(chunker) /\ ~Blank(chunker.text)) =>
        LET t  == Trimmed(chunker)
            cs == chunker.chunks
            k  == Len(cs)
            at(i) == StartOf(cs, chunker.overlap, i)
        IN  /\ chunker.pc = "returned"
            /\ k >= 1
            /\ \A i \in 1..k : Len(cs[i]) >= 1 /\ cs[i] = SubSeq(t, at(i) + 1, at(i) + Len(cs[i]))
            /\ \A i \in 1..(k - 1) : Len(cs[i]) = chunker.chunk_size
            /\ at(k) + Len(cs[k]) = Len(t)
            /\ \A pos \in 1..Len(t) : \E i \in 1..k : at(i) < pos /\ pos <= at(i) + Len(cs[i])

\* a text with white space around it is cut into three windows that overlap
C11_Witness ==
    /\ chunker.pc = "returned" /\ ValidArgs(chunker) /\ chunker.overlap >= 1
    /\ Len(chunker.chunks) >= 3
    /\ Trimmed(chunker) # chunker.text[1]

\* C12: chunk_text returns no chunk for a missing, empty or blank text, whatever
\* chunk_size and overlap are, and at least one chunk for every other text: whenever
\* it returns, and it does return when 0 <= overlap < chunk_size.
C12_EmptyIffBlank ==
    chunker.pc # "none" =>
        /\ Blank(chunker.text) => chunker.pc = "returned" /\ chunker.chunks = <<>>
        /\ (~Blank(chunker.text) /\ chunker.pc = "returned") => Len(chunker.chunks) >= 1
        /\ (~Blank(chunker.text) /\ ValidArgs(chunker)) => chunker.pc = "returned"

\* a blank text that is not empty, with a chunk_size the chunker is not specified for
C12_Witness ==
    /\ chunker.pc = "returned" /\ chunker.chunks = <<>>
    /\ chunker.text # Missing /\ Len(chunker.text[1]) >= 2
    /\ chunker.chunk_size <= 0

(********************* claims on the embedding client **********************)
\* the requests of the call e for the batch that starts at batch_start, in order
RequestsFor(e, batch_start) ==
    SelectSeq(e.requests, LAMBDA q : q.batch_start = batch_start)

BatchStarts(e) == {q * BATCH_SIZE : q \in 0..((Len(e.texts) - 1) \div BATCH_SIZE)}

\* the vector the service sent for the i-th text, in its last answer to the text's batch
Sent(e, i) ==
    LET batch_start == ((i - 1) \div BATCH_SIZE) * BATCH_SIZE
    IN  Last(RequestsFor(e, batch_start)).response.embeddings[i - batch_start]

\* C13: when ollama_embed returns, it returns one vector per text, and the i-th is
\* the normalized vector the service sent for the i-th text.
C13_OneVectorPerText ==
    \A h \in Handlers :
        embed[h].pc = "returned" =>
            /\ Len(embed[h].all_embeddings) = Len(embed[h].texts)
            /\ \A i \in 1..Len(embed[h].texts) :
                  embed[h].all_embeddings[i] = l2_normalize(Sent(embed[h], i))

\* the squared norm of a vector of thousandths, in millionths, is 1 up to the
\* rounding of the thousandths
Epsilon == 2 * MILLI

UnitNorm(vec) == Abs(SumSquares(vec, 1) - MILLI * MILLI) <= Epsilon

AllZero(vec) == \A i \in 1..Len(vec) : vec[i] = 0

\* C14 as stated: every vector the client has appended to its output has unit norm.
C14_Original ==
    \A h \in Handlers : \A i \in 1..Len(embed[h].all_embeddings) :
        UnitNorm(embed[h].all_embeddings[i])

\* C14, amended: every vector the client has appended to its output has unit norm
\* when the service sent a vector with a component that is not zero, and is the
\* all-zero vector when the service sent the all-zero vector.
C14_UnitNormUnlessZero ==
    \A h \in Handlers : \A i \in 1..Len(embed[h].all_embeddings) :
        IF AllZero(Sent(embed[h], i))
        THEN AllZero(embed[h].all_embeddings[i])
        ELSE UnitNorm(embed[h].all_embeddings[i])

\* two texts were embedded and the service sent a vector off the axes
C14_Witness ==
    /\ embed[1].pc = "returned" /\ Len(embed[1].all_embeddings) = 2
    /\ Sent(embed[1], 2)[1] = 1 /\ Sent(embed[1], 2)[2] = -3

\* the requests of a batch were all answered not-ready
AllNotReady(reqs) == reqs # <<>> /\ \A j \in 1..Len(reqs) : reqs[j].response.status = 404

\* the batches of the posts made so far, the one that is awaiting its answer included
Posts(e) ==
    [j \in 1..Len(e.requests) |-> e.requests[j].batch_start]
        \o (IF e.pc = "posting" THEN <<e.batch_start>> ELSE <<>>)

\* the attempts that followed an earlier attempt for the same batch
Retries(e) == {j \in 2..Len(Posts(e)) : Posts(e)[j] = Posts(e)[j - 1]}

\* C15: a batch is posted at most max_retries times; there is one wait, of a second
\* or more, before every attempt that follows another; a call that has ended with a
\* batch whose requests were all answered not-ready has raised; and every call ends.
C15_BoundedRetries ==
    /\ [](\A b \in BatchStarts(embed[1]) :
             Len(RequestsFor(embed[1], b)) <= Max(0, embed[1].max_retries))
    /\ [](/\ Len(embed[1].waits)
               = Cardinality(Retries(embed[1])) + (IF embed[1].pc = "sleeping" THEN 1 ELSE 0)
          /\ \A j \in 1..Len(embed[1].waits) : embed[1].waits[j] >= 1)
    /\ []((/\ embed[1].pc \in {"returned", "raised"}
           /\ \E b \in BatchStarts(embed[1]) : AllNotReady(RequestsFor(embed[1], b)))
          => embed[1].pc = "raised")
    /\ (embed[1].pc \in {"posting", "sleeping"}) ~> (embed[1].pc \in {"returned", "raised"})

\* the second batch was posted max_retries = 3 times, with two waits, and the call raised
C15_Witness ==
    /\ embed[1].pc = "raised" /\ embed[1].max_retries = 3
    /\ Len(RequestsFor(embed[1], BATCH_SIZE)) = 3
    /\ AllNotReady(RequestsFor(embed[1], BATCH_SIZE))
    /\ Len(embed[1].waits) = 2

\* an answer that is fatal: the wrong number of vectors, a vector of the wrong
\* length, or an error other than not-ready
Fatal(q) ==
    \/ q.response.status \notin {200, 404}
    \/ /\ q.response.status = 200
       /\ \/ Len(q.response.embeddings) # Len(q.batch)
          \/ \E i \in 1..Len(q.response.embeddings) : Len(q.response.embeddings[i]) # EMBED_DIM

\* C16: when a fatal answer arrives the call raises at once, without a wait, and a
\* call that has raised sends no request, waits no more and returns nothing.
C16_FatalAtOnce ==
    [][ /\ (Len(embed'[1].requests) > Len(embed[1].requests) /\ Fatal(Last(embed'[1].requests)))
            => (embed'[1].pc = "raised" /\ embed'[1].waits = embed[1].waits)
        /\ embed[1].pc = "raised" => embed'[1] = embed[1] ]_vars

\* the second of three batches got one vector too few, after a retry
C16_Witness ==
    /\ embed[1].pc = "raised" /\ Len(embed[1].texts) > 2 * BATCH_SIZE
    /\ embed[1].batch_start = BATCH_SIZE
    /\ Len(Last(embed[1].requests).response.embeddings) = BATCH_SIZE - 1
    /\ Last(embed[1].requests).response.status = 200
    /\ Len(embed[1].waits) >= 1

(**************************** claims on the ingest *************************)
Sources == {"s1", "s2"}

\* the writes to a backend for a source, in order
WritesOf(backend, source) ==
    SelectSeq(writes, LAMBDA w : w.backend = backend /\ w.source = source)

\* the table holds for the source exactly these chunks, chunk i with index i - 1
PgHolds(source, chunks) ==
    LET rows == {row \in documents : row.source = source}
    IN  /\ Cardinality(rows) = Len(chunks)
        /\ \A i \in 1..Len(chunks) :
              \E row \in rows : row.chunk_id = i - 1 /\ row.content = chunks[i]

\* the collection holds for the source exactly these chunks, chunk i with index i - 1
ChromaHolds(source, chunks) ==
    LET ids == {id \in DOMAIN collection : collection[id].metadata.source = source}
    IN  /\ Cardinality(ids) = Len(chunks)
        /\ \A i \in 1..Len(chunks) :
              \E id \in ids : /\ collection[id].metadata.chunk = i - 1
                              /\ collection[id].document = chunks[i]

\* the source was ingested twice or more, always into both backends, with the same
\* chunks and without a failure
SameContentTwice(source) ==
    LET pg == WritesOf("pg", source)
        ch == WritesOf("chroma", source)
    IN  /\ Len(pg) >= 2 /\ Len(ch) = Len(pg)
        /\ \A j \in 1..Len(pg) : /\ pg[j].ok /\ ch[j].ok
                                 /\ pg[j].chunks = pg[1].chunks /\ ch[j].chunks = pg[1].chunks

C18_FullReplace ==
    \A s \in Sources :
        LET pg == WritesOf("pg", s)
            ch == WritesOf("chroma", s)
        IN  /\ (pg # <<>> /\ \A j \in 1..Len(pg) : pg[j].ok) => PgHolds(s, Last(pg).chunks)
            /\ (ch # <<>> /\ \A j \in 1..Len(ch) : ch[j].ok) => ChromaHolds(s, Last(ch).chunks)

\* C19: the rows the table holds for a source are always the complete set of one
\* ingest of the source, or none when no ingest of the source has succeeded.
C19_ReplaceIsAtomic ==
    \A s \in Sources :
        LET pg == WritesOf("pg", s)
        IN  \/ \E j \in 1..Len(pg) : PgHolds(s, pg[j].chunks)
            \/ /\ {row \in documents : row.source = s} = {}
               /\ \A j \in 1..Len(pg) : ~pg[j].ok

\* C20: when an ingest into both backends wrote the table and then failed to write
\* the collection, the caller gets a result that reports the latency of the write
\* to the table and lacks only the latency of the write to the collection.
C20_PerBackendFailure ==
    \A h \in Handlers :
        LET mine == SelectSeq(writes, LAMBDA w : w.h = h)
        IN  (/\ ingests[h].pc = "done" /\ ingests[h].req.backend = "both"
             /\ Len(mine) = 2 /\ mine[1].ok /\ ~mine[2].ok)
            => /\ ingests[h].response.status = 200
               /\ "pg_write_ms" \in DOMAIN ingests[h].response.body
               /\ "chroma_write_ms" \notin DOMAIN ingests[h].response.body

\* the chunks the ingest of raw makes under the parameters of the request
ChunksOf(req, raw) ==
    chunk_text(Given(extract_text_from_openapi(raw)),
               OrInt(req.chunk_size, CHUNK_SIZE), OrInt(req.chunk_overlap, CHUNK_OVERLAP))

NoChunks(req, raw) == ChunksOf(req, raw).returns /\ ChunksOf(req, raw).chunks = <<>>

\* the request carries neither a text nor a url
NeitherGiven(req) ==
    /\ req.text = Missing \/ req.text[1].text = <<>>
    /\ req.url = Missing \/ req.url[1] = ""

\* the step answers handler h with a 400, posts nothing and writes nothing
Rejects(h) ==
    /\ ingests'[h].pc = "done" /\ ingests'[h].response.status = 400
    /\ embed'[h] = NoEmbed
    /\ UNCHANGED <<documents, serial, collection, writes>>

\* C21: the step in which a handler finds that its request carries neither text nor
\* url, or that the text it was given or has fetched makes no chunk, answers 400
\* without a post to the embedding service and without a write to a backend; and a
\* handler that has answered 400 has posted nothing and written nothing.
C21_EmptyRejected ==
    /\ [][\A h \in Handlers :
            LET req == ingests'[h].req
            IN  (\/ /\ ingests[h].pc = "none" /\ ingests'[h].pc # "none"
                    /\ \/ NeitherGiven(req)
                       \/ req.text # Missing /\ NoChunks(req, req.text[1])
                 \/ \E raw \in DocumentsAtUrl :
                       Fetched(h, raw) /\ NoChunks(ingests[h].req, raw))
                => Rejects(h)]_vars
    /\ [](\A h \in Handlers :
             (ingests[h].pc = "done" /\ ingests[h].response.status = 400)
             => /\ embed[h].requests = <<>>
                /\ \A j \in 1..Len(writes) : writes[j].h # h)

\* an ingest has written both backends, and the next one, of a url whose document is
\* empty, was answered 400
C21_Witness ==
    /\ ingests[1].pc = "done" /\ ingests[1].response.status = 200 /\ Len(writes) = 2
    /\ ingests[2].pc = "done" /\ ingests[2].response.status = 400
    /\ ingests[2].req.url # Missing
    /\ documents # {} /\ DOMAIN collection # {}

\* the writes handler h has made
WritesBy(h) == SelectSeq(writes, LAMBDA w : w.h = h)

\* C22: a handler writes to a backend only after its embedding call has returned,
\* with every batch answered; the step that ends an ingest whose embedding call has
\* raised answers with an error and leaves both backends as they were, so such an
\* ingest has written nothing.
C22_NoWriteAfterEmbedFailure ==
    /\ [](\A h \in Handlers :
             WritesBy(h) # <<>> =>
                /\ ingests[h].pc = "done" /\ embed[h].pc = "returned"
                /\ \A b \in BatchStarts(embed[h]) :
                      \E j \in 1..Len(embed[h].requests) :
                          /\ embed[h].requests[j].batch_start = b
                          /\ embed[h].requests[j].response.status = 200)
    /\ [](\A h \in Handlers :
             (ingests[h].pc = "done" /\ embed[h].pc = "raised")
             => ingests[h].response.status = 500 /\ WritesBy(h) = <<>>)
    /\ [][\A h \in Handlers :
            (embed[h].pc = "raised" /\ ingests[h].pc # ingests'[h].pc)
            => /\ ingests'[h].pc = "done"
               /\ UNCHANGED <<documents, serial, collection, writes>>]_vars

\* an ingest has written both backends; the next one had its first batch embedded,
\* its second batch answered with an error, and was ended
C22_Witness ==
    /\ WritesBy(1) # <<>> /\ documents # {} /\ DOMAIN collection # {}
    /\ ingests[2].pc = "done" /\ embed[2].pc = "raised"
    /\ Len(embed[2].all_embeddings) = BATCH_SIZE
    /\ Len(RequestsFor(embed[2], BATCH_SIZE)) >= 1

\* the writes the step adds to the log
NewWrites == SubSeq(writes', Len(writes) + 1, Len(writes'))

\* C23: in the step in which a handler writes, the chunks and the embeddings it
\* passes are equally many and the i-th embedding is the normalized vector the
\* service sent for the i-th chunk; after a write that succeeded the row, and the
\* entry, of the source with chunk index i - 1 holds chunk i and embedding i.
C23_ChunksAndEmbeddingsAligned ==
    [][\A h \in Handlers :
         (ingests[h].pc = "embedding" /\ NewWrites # <<>> /\ NewWrites[1].h = h) =>
            LET chunks == ingests[h].chunks
                embeds == embed[h].all_embeddings
                source == ingests[h].req.source
                ok(b)  == \E j \in 1..Len(NewWrites) : NewWrites[j].backend = b /\ NewWrites[j].ok
            IN  /\ Len(chunks) = Len(embeds)
                /\ \A i \in 1..Len(chunks) :
                      /\ Batch([embed[h] EXCEPT !.batch_start =
                                   ((i - 1) \div BATCH_SIZE) * BATCH_SIZE])
                            [((i - 1) % BATCH_SIZE) + 1] = chunks[i]
                      /\ embeds[i] = l2_normalize(Sent(embed[h], i))
                /\ ok("pg") =>
                      \A row \in documents' :
                          row.source = source =>
                             /\ row.chunk_id \in 0..(Len(chunks) - 1)
                             /\ row.content = chunks[row.chunk_id + 1]
                             /\ row.embedding = vector_literal(embeds[row.chunk_id + 1])
                /\ ok("chroma") =>
                      \A i \in 1..Len(chunks) :
                          /\ EntryId(source, i - 1) \in DOMAIN collection'
                          /\ collection'[EntryId(source, i - 1)].document = chunks[i]
                          /\ collection'[EntryId(source, i - 1)].embedding = embeds[i]]_vars

\* an ingest of two batches has written its 33 chunks to both backends
C23_Witness ==
    /\ ingests[2].pc = "done" /\ ingests[2].response.status = 200
    /\ Len(ingests[2].chunks) = BATCH_SIZE + 1
    /\ Cardinality({row \in documents : row.source = "s2"}) = BATCH_SIZE + 1
    /\ EntryId("s2", BATCH_SIZE) \in DOMAIN collection

(*************************** claims on the driver **************************)
\* the place of a call within its repetition
Rank(c) ==
    CASE c.op = "fetch_spec" -> 0
      [] c.op = "reset_databases" -> 1
      [] c.op = "ingest_spec" -> 2
      [] c.op = "get_db_stats" -> 3
      [] OTHER -> 3 + c.query

\* (spec as issued, repetition, place) in lexicographic order
Before(a, b) ==
    \/ a[1] < b[1]
    \/ a[1] = b[1] /\ a[2] < b[2]
    \/ a[1] = b[1] /\ a[2] = b[2] /\ a[3] < b[3]

\* the names of the specs of the known categories, in the order they are issued
RECURSIVE IssuedSpecs(_, _)
IssuedSpecs(categories, i) ==
    IF i > Len(categories) THEN <<>>
    ELSE (IF categories[i] \in DOMAIN ApiSpecsList.categories
          THEN ApiSpecsList.categories[categories[i]] ELSE <<>>)
         \o IssuedSpecs(categories, i + 1)

\* the call op of this repetition has returned
Returned(d, op, issue, run) ==
    \E k \in 1..Len(d.calls) :
        /\ d.calls[k].op = op /\ d.calls[k].issue = issue /\ d.calls[k].run = run
        /\ d.calls[k].ok

\* C24: the calls of the driver are made in the order of the specs as issued, then
\* of the repetitions, and within a repetition reset, ingest, then the queries in
\* template order, each once; every row belongs to a repetition whose reset and
\* ingest have returned and to a query of it that has returned; and the rows are in
\* the strict order of (spec as issued, repetition, query), so there is at most one
\* row per spec issued, repetition and query.
C24_DriverOrder ==
    /\ \A i, j \in 1..Len(driver.calls) :
          i < j => Before(<<driver.calls[i].issue, driver.calls[i].run, Rank(driver.calls[i])>>,
                          <<driver.calls[j].issue, driver.calls[j].run, Rank(driver.calls[j])>>)
    /\ \A k \in 1..Len(driver.calls) :
          driver.calls[k].op = "query_spec" =>
             /\ Returned(driver, "reset_databases", driver.calls[k].issue, driver.calls[k].run)
             /\ Returned(driver, "ingest_spec", driver.calls[k].issue, driver.calls[k].run)
    /\ \A i \in 1..Len(driver.results) :
          LET r == driver.results[i]
          IN  /\ r.run_number \in 1..driver.runs_per_spec
              /\ r.api_name = IssuedSpecs(driver.categories, 1)[r.issue]
              /\ r.query_text = generate_queries(r.api_name, r.api_category)[r.query]
              /\ Returned(driver, "reset_databases", r.issue, r.run_number)
              /\ Returned(driver, "ingest_spec", r.issue, r.run_number)
              /\ \E k \in 1..Len(driver.calls) :
                    /\ driver.calls[k].op = "query_spec" /\ driver.calls[k].ok
                    /\ driver.calls[k].issue = r.issue /\ driver.calls[k].run = r.run_number
                    /\ driver.calls[k].query = r.query
    /\ \A i, j \in 1..Len(driver.results) :
          i < j => Before(<<driver.results[i].issue, driver.results[i].run_number,
                            driver.results[i].query>>,
                          <<driver.results[j].issue, driver.results[j].run_number,
                            driver.results[j].query>>)
    /\ driver.pc = "exited" /\ driver.file.exists =>
          driver.file.rows = [i \in 1..Len(driver.results) |-> RowCells(driver.results[i])]

\* two repetitions of two specs have ended with an ingest and a query that failed:
\* 14 of the 20 rows, written to the file
C24_Witness ==
    /\ driver.pc = "exited" /\ driver.runs_per_spec = 2 /\ Faults(driver) = 2
    /\ Len(driver.results) = 14 /\ driver.file.exists
    /\ driver.results[14].issue = 2 /\ driver.results[14].run_number = 2

\* a download, a reset, an ingest or a query of the driver has failed
Faulty(d) ==
    \E k \in 1..Len(d.calls) :
        ~d.calls[k].ok
        /\ d.calls[k].op \in {"fetch_spec", "reset_databases", "ingest_spec", "query_spec"}

\* C25: a run whose driver had a download, a reset, an ingest or a query fail ends
\* in status failed with a message, never in completed.
C25_FaultsFailTheRun ==
    (task[1].pc = "done" /\ Faulty(driver)) =>
        /\ active_benchmarks[1]["status"] = "failed"
        /\ "error" \in DOMAIN active_benchmarks[1] /\ active_benchmarks[1]["error"] # <<>>

(************************** claims on the registry *************************)
\* a step of the orchestration task of run id
TaskStep(id) ==
    \/ Spawn(id)
    \/ SpawnFails(id)
    \/ \E line \in RegistryLines : ReadLine(id, line)
    \/ StdoutClosed(id)
    \/ \E outcome \in RegistryOutcomes : Finish(id, outcome)

\* C26: an entry of the registry appears in a step of the start operation for its
\* id, changes only in a step of the orchestration task of its run, and never
\* disappears; a step of a stream or of a status request changes no entry.
C26_SingleWriter ==
    [][/\ \A id \in BenchmarkIds :
            IF id \in DOMAIN active_benchmarks
            THEN /\ id \in DOMAIN active_benchmarks'
                 /\ active_benchmarks'[id] # active_benchmarks[id] => TaskStep(id)
            ELSE id \in DOMAIN active_benchmarks' =>
                    \E request \in FewRequests : start_benchmark(id, request)
       /\ (obs' # obs \/ events' # events \/ replies' # replies)
            => active_benchmarks' = active_benchmarks]_vars

\* run 1 has ended and run 2 is being read, with a stream that has received events
\* and a status request that was answered
C26_Witness ==
    /\ 2 \in DOMAIN active_benchmarks
    /\ active_benchmarks[1]["status"] = "completed" /\ task[2].pc = "reading"
    /\ "phase" \in DOMAIN active_benchmarks[2]
    /\ Len(events[1]) >= 2 /\ replies # <<>> /\ replies[1].status = 200

\* the start operation has returned id
Returned27(id) == task[id].pc # "none"

\* the entry of id is as the start operation makes it
Fresh(state) ==
    /\ state["status"] = "running"
    /\ state["results"] = <<>>
    /\ state["current_progress"] = 0

\* C27: an id the start operation has returned is in the registry, and until its
\* task takes its first step the entry has status running, no results and progress
\* zero; the start operation takes an id that is not in the registry; no entry
\* leaves the registry; and no status or stream request for an id that has been
\* returned is answered 404.
C27_RegisteredBeforeReturn ==
    /\ [](\A id \in BenchmarkIds :
            /\ Returned27(id) => id \in DOMAIN active_benchmarks
            /\ task[id].pc = "created" => Fresh(active_benchmarks[id]))
    /\ [][/\ DOMAIN active_benchmarks \subseteq DOMAIN active_benchmarks'
          /\ \A id \in BenchmarkIds :
               (~Returned27(id) /\ Returned27(id)') =>
                   /\ id \notin DOMAIN active_benchmarks
                   /\ task'[id].pc = "created"
          /\ replies' # replies =>
               (replies'[Len(replies')].status = 404
                   => ~Returned27(replies'[Len(replies')].benchmark_id))
          /\ \A o \in Observers :
               (obs[o].pc # "404" /\ obs'[o].pc = "404")
                   => ~Returned27(obs'[o].benchmark_id)]_vars

\* a status request for run 2 was answered with the entry as registered, before the
\* task of run 2 took a step, while run 1 had ended and a stream of it was open
C27_Witness ==
    /\ task[2].pc = "created" /\ task[1].pc = "done"
    /\ replies # <<>> /\ replies[1].benchmark_id = 2 /\ replies[1].status = 200
    /\ Fresh(replies[1].body)
    /\ Streaming(1)

(************************* claims on the extraction ************************)
\* the walk of the document collects no fragment that has a character other than
\* whitespace
BlankWalk(raw) == \A i \in 1..Len(raw.data.parts) : Strip(raw.data.parts[i]) = <<>>

\* C28: every call of extract_text_from_openapi returns; when the input parses
\* neither as JSON nor as YAML, or parses to something that is not a mapping, or the
\* walk raises, or the walk collects only blank fragments, it returns the raw input
\* unchanged; and for a raw input that is not empty it returns a text that is not
\* empty.
C28_ExtractionNeverFails ==
    extractor.pc # "none" =>
        /\ extractor.pc = "returned"
        /\ (\/ extractor.raw.data.kind # "mapping"
            \/ BlankWalk(extractor.raw)) => extractor.txt = extractor.raw.text
        /\ extractor.raw.text # <<>> => extractor.txt # <<>>

(*********************** claims on the progress markers *********************)
\* a sub_progress, in thousandths, that is at least 0 and less than 1
InUnit(x) == 0 <= x /\ x < MILLI

\* C29: the sub_progress of every run state that has one, and of every event of
\* every stream that has one, is at least 0 and less than 1.
C29_SubProgressInUnit ==
    /\ \A id \in DOMAIN active_benchmarks :
          "sub_progress" \in DOMAIN active_benchmarks[id]
              => InUnit(active_benchmarks[id]["sub_progress"])
    /\ \A o \in Observers : \A i \in 1..Len(events[o]) :
          "sub_progress" \in DOMAIN events[o][i] => InUnit(events[o][i].sub_progress)
\* the number of pipe characters of s
NPipes(s) == Cardinality({i \in 1..Len(s) : s[i] = "|"})

\* the position of the n-th pipe character of s
PipeAt(s, n) ==
    CHOOSE i \in 1..Len(s) : s[i] = "|" /\ NPipes(SubSeq(s, 1, i)) = n

\* the text of a marker line after the prefix
Body(line_str) == Strip(Tail(line_str))

\* C30: the text after the prefix of a marker line is split at its first four pipe
\* characters and no further: there is one field more than pipes, and 5 at most, no
\* field before the last has a pipe, and the fields joined with pipes are the text;
\* when the line has four pipes or more and its three numbers parse, the run state
\* holds the first field as phase and all the text after the fourth pipe, further
\* pipes included, as last_message.
C30_MessageAbsorbsPipes ==
    \A id \in DOMAIN active_benchmarks :
        LET line_str == task[id].line_str
            body     == Body(line_str)
            parts    == MarkerParts(line_str)
            state    == active_benchmarks[id]
        IN  StartsWithProgress(line_str) =>
              /\ Len(parts) = (IF NPipes(body) < 4 THEN NPipes(body) ELSE 4) + 1
              /\ \A i \in 1..(Len(parts) - 1) : NPipes(parts[i]) = 0
              /\ Join(parts, "|") = body
              /\ (/\ NPipes(body) >= 4
                  /\ IsInt(parts[2]) /\ IsInt(parts[3]) /\ IsFloat(parts[4])) =>
                    /\ "last_message" \in DOMAIN state
                    /\ state["last_message"] = SubSeq(body, PipeAt(body, 4) + 1, Len(body))
                    /\ state["phase"] = parts[1]
                    /\ state["current_progress"] = ParseInt(parts[2])

\* the last line read has six pipes, and the message with its two pipes is stored
C30_Witness ==
    /\ 1 \in DOMAIN active_benchmarks
    /\ StartsWithProgress(task[1].line_str)
    /\ NPipes(Body(task[1].line_str)) = 6
    /\ "last_message" \in DOMAIN active_benchmarks[1]
    /\ active_benchmarks[1]["last_message"] = <<"a", "|", "|">>

\* the fields of a run state that a legacy line may change
LegacyFields == {"current_progress", "last_message", "last_update"}

\* C31: a step that reads a line which does not start with the marker prefix and
\* holds the legacy substring adds one to current_progress and stores the line as
\* last_message, and no field other than these two and last_update changes or
\* appears; a step that reads a line that is neither changes no field; a step that
\* reads a line that starts with the prefix leaves the state as it is or stores the
\* marker's own current_run and message, whether or not the line holds the legacy
\* substring.
C31_LegacyLine ==
    [][(nlines' = nlines + 1 /\ task'[1].pc = "reading") =>
         LET line_str == task'[1].line_str
             state    == active_benchmarks[1]
             after    == active_benchmarks'[1]
         IN  IF StartsWithProgress(line_str)
             THEN \/ after = state
                  \/ /\ WellFormed(line_str)
                     /\ after["current_progress"] = ParseInt(MarkerParts(line_str)[2])
                     /\ after["last_message"] = MarkerParts(line_str)[5]
             ELSE IF ContainsLegacy(line_str)
             THEN /\ DOMAIN after = DOMAIN state \cup LegacyFields
                  /\ after["current_progress"] = state["current_progress"] + 1
                  /\ after["last_message"] = line_str
                  /\ \A key \in DOMAIN after \ LegacyFields : after[key] = state[key]
             ELSE after = state]_vars

\* a legacy line was read after a marker: the count is one more than the marker's
\* current_run, and the marker's phase and sub_progress are still there
C31_Witness ==
    /\ 1 \in DOMAIN active_benchmarks /\ nlines = 2
    /\ ContainsLegacy(task[1].line_str) /\ ~StartsWithProgress(task[1].line_str)
    /\ "phase" \in DOMAIN active_benchmarks[1]
    /\ active_benchmarks[1]["phase"] = <<"query">>
    /\ active_benchmarks[1]["sub_progress"] = 250
    /\ active_benchmarks[1]["current_progress"] = 3
    /\ active_benchmarks[1]["last_message"] = task[1].line_str

(********************** claims on the backoff of the client *****************)
\* C32: a call with the default max_retries whose requests were all answered
\* not-ready, and which has raised, has waited 1, 3, 9, 27 and 81 seconds, in this
\* order.
C32_BackoffWaits ==
    (/\ embed[1].max_retries = DEFAULT_MAX_RETRIES
     /\ embed[1].pc = "raised"
     /\ AllNotReady(embed[1].requests))
        => embed[1].waits = <<1, 3, 9, 27, 81>>

(********************* claims on the values of the rows *********************)
\* the calls of op the driver made in this repetition of this issue of a spec
CallsOf(d, op, issue, run) ==
    {k \in 1..Len(d.calls) :
        d.calls[k].op = op /\ d.calls[k].issue = issue /\ d.calls[k].run = run}

\* the values a row carries from the ingest, and from the stats call
IngestValues(r) == IngestResult(r.num_chunks, r.embed_ms, r.pg_write_ms, r.chroma_write_ms)

SizeValues(r) == Sizes(r.db_size_pg_mb, r.db_size_chroma_mb)

\* the repetition of row r made one ingest call, which returned the values the row
\* carries, then one stats call, before every query of the repetition
OwnIngestThenStats(d, r) ==
    LET ing == CallsOf(d, "ingest_spec", r.issue, r.run_number)
        st  == CallsOf(d, "get_db_stats", r.issue, r.run_number)
    IN  /\ Cardinality(ing) = 1 /\ Cardinality(st) = 1
        /\ \A a \in ing : \A b \in st :
              /\ d.calls[a].ok /\ IngestValues(r) = d.calls[a].value
              /\ a < b
              /\ \A k \in CallsOf(d, "query_spec", r.issue, r.run_number) : b < k

\* a repetition whose ingest failed has no row
FailedIngestNoRow(d) ==
    \A k \in 1..Len(d.calls) :
        (d.calls[k].op = "ingest_spec" /\ ~d.calls[k].ok) =>
            \A i \in 1..Len(d.results) :
                ~(d.results[i].issue = d.calls[k].issue
                  /\ d.results[i].run_number = d.calls[k].run)

\* the rows of one repetition carry the same values
SameValues(d) ==
    \A i, j \in 1..Len(d.results) :
        (d.results[i].issue = d.results[j].issue
         /\ d.results[i].run_number = d.results[j].run_number) =>
            /\ IngestValues(d.results[i]) = IngestValues(d.results[j])
            /\ SizeValues(d.results[i]) = SizeValues(d.results[j])

RowsOnlyIfCompleted(state) == state["results"] # <<>> => state["status"] = "completed"

\* C34: in every state, every run entry, and every entry a status request was
\* answered with, has results only when its status is completed; no stream event
\* of a run that is not completed carries rows.
C34_ResultsOnlyWhenCompleted ==
    /\ \A id \in DOMAIN active_benchmarks : RowsOnlyIfCompleted(active_benchmarks[id])
    /\ \A k \in 1..Len(replies) :
          replies[k].status = 200 => RowsOnlyIfCompleted(replies[k].body)
    /\ \A o \in Observers : \A i \in 1..Len(events[o]) :
          "results" \in DOMAIN events[o][i] =>
              (events[o][i].results # <<>> => events[o][i].status = "completed")

\* the result file had a row that converts and after it one that does not: the run
\* has failed with no results, a status request was answered with that state, and
\* the stream has ended
C34_Witness ==
    /\ 1 \in DOMAIN active_benchmarks
    /\ active_benchmarks[1]["status"] = "failed" /\ active_benchmarks[1]["results"] = <<>>
    /\ files[1].exists /\ Len(DataRows(files[1])) = 2
    /\ RowError(files[1].fieldnames, DataRows(files[1])[1], 1) = <<>>
    /\ FileError(files[1], 1) # <<>>
    /\ replies # <<>> /\ replies[1].status = 200 /\ replies[1].body["status"] = "failed"
    /\ obs[1].pc = "done"

(************************ claims on the progress count **********************)
\* C35: the current progress of every run state is at least 0 and at most the
\* total of the run, and so is the progress of every stream event against the
\* total of that event.
C35_ProgressWithinTotal ==
    /\ \A id \in DOMAIN active_benchmarks :
          /\ 0 <= active_benchmarks[id]["current_progress"]
          /\ active_benchmarks[id]["current_progress"] <= active_benchmarks[id]["total_runs"]
    /\ \A o \in Observers : \A i \in 1..Len(events[o]) :
          0 <= events[o][i].progress /\ events[o][i].progress <= events[o][i].total

\* the progress formula on the values a run state or a change event holds; 0 while
\* nothing has progressed
FormulaPct(progress, total, sub_progress, pct_given) ==
    IF progress = 0 /\ ~pct_given THEN 0
    ELSE OverallProgressPct(progress, total, sub_progress)

\* a change event, as against the final event
IsChangeEvent(e) == "overall_progress_pct" \in DOMAIN e

\* C36: the stored overall_progress_pct of every run state is the progress formula
\* on the current progress and the sub_progress of that state, 0 before any
\* progress, and the percentage of every change event is the formula on the
\* progress and the sub_progress of that event.
C36_PctFromStoredProgress ==
    /\ \A id \in DOMAIN active_benchmarks :
          LET state == active_benchmarks[id] IN
          Get(state, "overall_progress_pct", 0)
            = FormulaPct(state["current_progress"], state["total_runs"],
                         Get(state, "sub_progress", 0),
                         "overall_progress_pct" \in DOMAIN state)
    /\ \A o \in Observers : \A i \in 1..Len(events[o]) :
          LET e == events[o][i] IN
          IsChangeEvent(e) =>
            e.overall_progress_pct
              = FormulaPct(e.progress, e.total, e.sub_progress, e.phase # <<>>)

(************************ claims on the snapshot of an event ****************)
\* the five progress fields of a change event
Snapshot(e) ==
    [ progress |-> e.progress, sub_progress |-> e.sub_progress,
      overall_progress_pct |-> e.overall_progress_pct,
      phase |-> e.phase, last_message |-> e.last_message ]

\* the five fields as the update of marker m stores them
MarkerSnapshot(m) ==
    [ progress |-> IntLiterals[m[2]], sub_progress |-> FloatLiterals[m[4]],
      overall_progress_pct |->
          OverallProgressPct(IntLiterals[m[2]], IntLiterals[m[3]], FloatLiterals[m[4]]),
      phase |-> <<m[1]>>, last_message |-> m[5] ]

\* the five fields of a run no marker has updated
NoMarkerSnapshot ==
    [ progress |-> 0, sub_progress |-> 0, overall_progress_pct |-> 0,
      phase |-> <<>>, last_message |-> <<>> ]

\* s is base, or base after one or more legacy lines: the progress counted up, the
\* legacy line as the message, the other three fields those of base
WholeUpdate(s, base) ==
    \/ s = base
    \/ /\ s.progress > base.progress
       /\ s.last_message = Strip(SnapLegacy)
       /\ s.sub_progress = base.sub_progress
       /\ s.overall_progress_pct = base.overall_progress_pct
       /\ s.phase = base.phase

ChangeEvents(o) == { events[o][i] : i \in { j \in 1..Len(events[o]) : IsChangeEvent(events[o][j]) } }

\* C37 as stated: the five progress fields of every change event that shows a phase
\* are those of one single marker update.
C37_Original ==
    \A o \in Observers : \A e \in ChangeEvents(o) :
      e.phase # <<>> => \E m \in SnapMarkers : Snapshot(e) = MarkerSnapshot(m)

\* C37 as amended: the five progress fields of every change event are those the run
\* state held after one whole line update: those of one single marker update (or of
\* a run no marker has updated), or these with the progress counted up and the
\* legacy line as the message once legacy lines followed; no event mixes fields of
\* two marker updates.
C37_WholeLineUpdates ==
    \A o \in Observers : \A e \in ChangeEvents(o) :
      \/ WholeUpdate(Snapshot(e), NoMarkerSnapshot)
      \/ \E m \in SnapMarkers : WholeUpdate(Snapshot(e), MarkerSnapshot(m))

\* an observer has seen the first marker update and then the second one, while the
\* other observer has seen only one of them
C37_Witness ==
    \E o \in Observers, p \in Observers :
      /\ o # p
      /\ \E i \in 1..Len(events[o]) : \E j \in (i + 1)..Len(events[o]) :
            /\ IsChangeEvent(events[o][i]) /\ IsChangeEvent(events[o][j])
            /\ events[o][i].phase = <<"ingest">>
            /\ events[o][j].phase = <<"query">>
            /\ events[o][j].last_message = <<"q1">>
      /\ ChangeEvents(p) # {}
      /\ \A e \in ChangeEvents(p) : e.phase # <<"ingest">>

(************************ claims on the end of a run ************************)
\* run id is registered and has ended
RunEnded(id) == id \in DOMAIN active_benchmarks /\ Ended(active_benchmarks[id])

\* C38: a run whose child has closed its output ends with the status completed or
\* failed once the child has exited, whatever lines the child wrote; no run is
\* left running after its child has exited.
C38_ExitEndsRun ==
    /\ (task[1].pc = "waiting") ~> RunEnded(1)
    /\ [](proc[1].state = "exited" => RunEnded(1))

\* the child wrote a malformed marker as its last line and exited with a code
\* other than 0; the run has failed
C38_Witness ==
    /\ proc[1].state = "exited" /\ proc[1].returncode # 0
    /\ nlines = MaxLines
    /\ StartsWithProgress(task[1].line_str) /\ ~WellFormed(task[1].line_str)
    /\ active_benchmarks[1]["status"] = "failed"

(************************ claims on the chunking of an ingest ***************)
\* C39: the chunking step of every ingest request comes to an end: no handler
\* stays in chunk_text.
C39_ChunkingTerminates ==
    \A h \in Handlers : ingests[h].pc # "chunking"

\* the value the request gives, the default when the request leaves it out
GivenOr(opt, default) == IF opt = Missing THEN default ELSE opt[1]

\* the chunks of the text of req with the sizes the request gives
RequestedChunks(req) ==
    chunk_text(Given(extract_text_from_openapi(req.text[1])),
               GivenOr(req.chunk_size, CHUNK_SIZE),
               GivenOr(req.chunk_overlap, CHUNK_OVERLAP))

\* C40: an ingest that has chunked its text holds the chunks that the chunk_size
\* and the chunk_overlap of its request give, an overlap of 0 included, with the
\* configured default for each value the request leaves out.
C40_RequestSizesUsed ==
    \A h \in Handlers :
      (ingests[h].chunks # <<>> /\ RequestedChunks(ingests[h].req).returns)
        => ingests[h].chunks = RequestedChunks(ingests[h].req).chunks

====
